---- MODULE Spec2Model ----
(***************************************************************************)
(* Authentication and session security of the subscription tracker         *)
(* (server.py): the in-process LoginRateLimiter, session issuance and      *)
(* resolution over the sqlite store, and the login / signup / logout       *)
(* handlers served by ThreadingHTTPServer threads.                         *)
(*                                                                         *)
(* Time is a clock of ticks, TicksPerSecond ticks to the second, so that   *)
(* the sub-second part of datetime.utcnow() that int(total_seconds()) and  *)
(* isoformat(timespec="seconds") cut off is visible.  The timedeltas of    *)
(* the program are whole seconds; the model instantiates them with small   *)
(* whole-second values.                                                    *)
(***************************************************************************)
EXTENDS Integers, Sequences, FiniteSets, TLC

\* ------------------------------------------------------------------ bounds
TicksPerSecond == 2
MaxSeconds == 2
\* LoginRateLimiter(max_attempts, attempt_window, lockout_duration): the
\* constructor's parameters, instantiated small (seconds) in place of the
\* defaults LOGIN_MAX_ATTEMPTS, LOGIN_ATTEMPT_WINDOW, LOGIN_LOCKOUT_DURATION.
max_attempts == 3
attempt_window_seconds == 1
lockout_duration_seconds == 2
\* timedelta(days=SESSION_DURATION_DAYS), instantiated small (seconds).
session_duration_seconds == 2
\* The idle timeout the specification configures (idle-timeout minutes,
\* 0 disables it), instantiated small (seconds); server.py reads no such setting.
session_idle_timeout_seconds == 1
\* The session duration the tests expect under ENV=production (7 days against
\* the 30 of the default), instantiated small (seconds).
production_session_duration_seconds == 1
\* How many sessions are issued in one behaviour.
MaxTokens == 2
\* How many subscriptions are created, and categories deleted, in one behaviour.
MaxSubscriptions == 1
MaxDeletedCategories == 1

MaxTime == MaxSeconds * TicksPerSecond
attempt_window == attempt_window_seconds * TicksPerSecond
lockout_duration == lockout_duration_seconds * TicksPerSecond

\* ------------------------------------------------------------------ values
Threads == {"T1", "T2"}
NoThread == "none"
Ips == {"10.0.0.1"}
Emails == {"ann@x.io", "bob@x.io"}
Passwords == {"pw-one", "pw-two"}
\* Python's None for a datetime / a user id / a token.
None == 0 - 1

Max(a, b) == IF a >= b THEN a ELSE b

\* (variant: the key is the client's address alone)
LimitKey_IpOnly(ip, email) == <<ip, "">>

\* f"{self._client_ip()}|{payload['email']}"
LimitKey(ip, email) == <<ip, email>>
Keys == {LimitKey(ip, e) : ip \in Ips, e \in Emails}

VARIABLES
    now,        \* datetime.utcnow(), in ticks
    environ,    \* os.environ: the settings the process runs with
    users,      \* table users: set of rows
    sessions,   \* table sessions: set of rows
    handed,     \* the raw tokens issue_session returned, in order: <<[token, user_id]>>
    seen,       \* per issued session: when its token was last issued or resolved
    subscriptions,      \* table subscriptions: set of rows
    categories,         \* table categories: set of rows
    sqlite_sequence,    \* AUTOINCREMENT: the last id given out, per table
    login_rate_limits,  \* table login_rate_limits: limiter_key -> row
    entries,    \* LOGIN_RATE_LIMITER._entries: key -> [attempts, locked_until]
    lock,       \* holder of LOGIN_RATE_LIMITER._lock
    pc,         \* per thread: where its login request stands
    req,        \* per thread: the request's ip, email, password
    cur,        \* per thread: current_time read by the limiter call in progress
    snap,       \* per thread: the entry register_failure read under the lock
    resp,       \* the last response a handler sent
    ret,        \* the last direct limiter call and its return value
    calls       \* history of the direct calls: per key, how many failures were
                \* registered since the key's count was last reset, and what reset it

vars == <<now, environ, users, sessions, handed, seen, subscriptions, categories, sqlite_sequence,
          login_rate_limits, entries, lock, pc, req, cur, snap, resp, ret, calls>>
\* The tables of subscriptions and categories, and the rate-limit rows.
storeVars == <<subscriptions, categories, sqlite_sequence, login_rate_limits>>
dbVars == <<users, sessions, handed, seen, storeVars>>
threadVars == <<pc, req, cur, snap>>

\* ------------------------------------------------------- LoginRateLimiter
NewEntry == [attempts |-> <<>>, locked_until |-> None]

\* (variant: an attempt exactly one window old is dropped)
PruneAttempts_Strict(attempts, t) ==
    LET Keep(item) == t - item < attempt_window
    IN  SelectSeq(attempts, Keep)

\* _prune_attempts: keep the attempts no older than the window.
PruneAttempts(attempts, t) ==
    LET Keep(item) == t - item <= attempt_window
    IN  SelectSeq(attempts, Keep)

\* int((locked_until - current_time).total_seconds())
WholeSeconds(ticks) == ticks \div TicksPerSecond

\* (variant: the whole seconds left, not raised to 1)
RetryAfter_NoMinimum(lockedUntil, t) == WholeSeconds(lockedUntil - t)

\* max(1, retry_after) of the seconds left of the lockout
RetryAfter(lockedUntil, t) == Max(1, WholeSeconds(lockedUntil - t))

\* (variant: the elapsed lockout is cleared, the attempts are kept)
ClearedEntry_KeepAttempts(entry) ==
    IF entry.locked_until # None
    THEN [attempts |-> entry.attempts, locked_until |-> None]
    ELSE entry

\* is_limited, the lockout not in the future: a lockout that was set is cleared
\* together with the attempts.
ClearedEntry(entry) ==
    IF entry.locked_until # None
    THEN [attempts |-> <<>>, locked_until |-> None]
    ELSE entry

\* (variant: no key is ever limited)
IsLimited_Never(ents, key, t) ==
    [limited |-> FALSE, retry_after |-> 0, entries |-> ents]

\* is_limited(key, now): the returned pair and the entries it leaves.
IsLimited(ents, key, t) ==
    IF key \notin DOMAIN ents
    THEN [limited |-> FALSE, retry_after |-> 0, entries |-> ents]
    ELSE LET entry == ents[key]
             lockedUntil == entry.locked_until
         IN  IF lockedUntil # None /\ lockedUntil > t
             THEN [limited |-> TRUE,
                   retry_after |-> RetryAfter(lockedUntil, t),
                   entries |-> ents]
             ELSE LET cleared == ClearedEntry(entry)
                      pruned == [cleared EXCEPT
                                   !.attempts = PruneAttempts(cleared.attempts, t)]
                  IN  [limited |-> FALSE, retry_after |-> 0,
                       entries |-> [ents EXCEPT ![key] = pruned]]

\* (variant: the lockout starts one failure late)
FailedEntry_OffByOne(entry, t) ==
    LET attempts == Append(PruneAttempts(entry.attempts, t), t)
    IN  IF Len(attempts) > max_attempts
        THEN [attempts |-> attempts, locked_until |-> t + lockout_duration]
        ELSE [attempts |-> attempts, locked_until |-> entry.locked_until]

\* The entry register_failure leaves for `entry` (read at setdefault) at time t.
FailedEntry(entry, t) ==
    LET attempts == Append(PruneAttempts(entry.attempts, t), t)
    IN  IF Len(attempts) >= max_attempts
        THEN [attempts |-> attempts, locked_until |-> t + lockout_duration]
        ELSE [attempts |-> attempts, locked_until |-> entry.locked_until]

\* register_failure's return value for the entry it wrote.
LockSeconds(written) ==
    IF Len(written.attempts) >= max_attempts
    THEN WholeSeconds(lockout_duration)
    ELSE 0

\* self._entries.setdefault(key, {"attempts": [], "locked_until": None})
SetDefault(ents, key) ==
    IF key \in DOMAIN ents THEN ents[key] ELSE NewEntry

\* d[key] = value on a dict
Put(ents, key, value) ==
    [k \in DOMAIN ents \cup {key} |-> IF k = key THEN value ELSE ents[k]]

\* register_failure(key, now), taken as one step.
RegisterFailure(ents, key, t) ==
    LET written == FailedEntry(SetDefault(ents, key), t)
    IN  [lock_seconds |-> LockSeconds(written), entries |-> Put(ents, key, written)]

\* (variant: the dict is emptied)
Clear_Everything(ents, key) == <<>>

\* clear(key): self._entries.pop(key, None)
Clear(ents, key) == [k \in DOMAIN ents \ {key} |-> ents[k]]

\* (variant: no mutual exclusion)
CanAcquire_NoLock(t) == TRUE

\* with self._lock: a thread enters when no thread holds the lock.
CanAcquire(t) == lock = NoThread

\* ------------------------------------------------------ passwords, tokens
Salts == {0, 1}

\* hashlib.pbkdf2_hmac("sha256", password, salt, PASSWORD_HASH_ITERATIONS):
\* a digest that depends on password and salt, one-to-one in the password.
PasswordCode(password) == IF password = "pw-one" THEN 1 ELSE 2
Pbkdf2(password, salt) == (PasswordCode(password) * 31 + salt * 17 + 5) % 101

\* What a call gives: a returned value, or an exception raised to the caller.
Returns(value) == [raises |-> FALSE, value |-> value]
Raises == [raises |-> TRUE, value |-> FALSE]

\* A str is modelled by its segments between ":"; a segment is the hex string
\* of a byte string, or text that is not hex (a digit missing, another letter).
\* bytes.hex()
Hex(bytes) == <<"hex", bytes>>
NotHex == <<"text", 0>>
\* b"", whose hex string is ""
EmptyBytes == None

\* bytes.fromhex(string): ValueError on text that is not hex
FromHex(string) ==
    IF string[1] = "hex" THEN Returns(string[2]) ELSE Raises

\* str.split(":", maxsplit=1): one part without a ":", else the first segment
\* and the rest, which holds the further ":" and so is not hex.
SplitOnce(encoded) ==
    IF Len(encoded) = 1 THEN <<encoded[1]>>
    ELSE IF Len(encoded) = 2 THEN <<encoded[1], encoded[2]>>
    ELSE <<encoded[1], NotHex>>

\* hash_password: f"{salt.hex()}:{digest.hex()}"
HashPassword(password, salt) == <<Hex(salt), Hex(Pbkdf2(password, salt))>>

\* (variant: every password verifies)
VerifyPassword_AnyPassword(password, encoded_hash) == Returns(TRUE)

\* (variant: the digest is re-derived with a salt of its own, not the stored one)
VerifyPassword_OwnSalt(password, encoded_hash) ==
    LET parts == SplitOnce(encoded_hash)
    IN  IF Len(parts) # 2
        THEN Returns(FALSE)
        ELSE LET salt == FromHex(parts[1])
                 expected == FromHex(parts[2])
             IN  IF salt.raises \/ expected.raises
                 THEN Raises
                 ELSE Returns(Pbkdf2(password, 0) = expected.value)

\* verify_password: the unpacking of a split without ":" is caught and gives
\* False; bytes.fromhex is outside the try; then re-derive with the stored
\* salt and compare.
VerifyPassword(password, encoded_hash) ==
    LET parts == SplitOnce(encoded_hash)
    IN  IF Len(parts) # 2
        THEN Returns(FALSE)
        ELSE LET salt == FromHex(parts[1])
                 expected == FromHex(parts[2])
             IN  IF salt.raises \/ expected.raises
                 THEN Raises
                 ELSE Returns(Pbkdf2(password, salt.value) = expected.value)

\* secrets.token_urlsafe(32): the n-th token drawn.
Token(n) == <<"token_urlsafe", n>>
NoToken == <<"None", 0>>
BogusToken == Token(0)
\* A Cookie header SimpleCookie.load raises CookieError on (an illegal key, as
\* in "a@b=1"): no cookie is read from it.
UnparsableCookie == <<"CookieError", 0>>

\* hash_session_token: hashlib.sha256(token).hexdigest()
HashSessionToken(token) == <<"sha256", (token[2] * 7 + 3) % 11>>

\* utc_now_iso(): the clock cut to whole seconds.
UtcNowIso(t) == t \div TicksPerSecond

\* ---------------------------------------------------------------- sessions
\* (variant: the row keeps the token itself)
SessionRow_RawToken(id, user_id, token, t) ==
    [id |-> id,
     user_id |-> user_id,
     token_hash |-> token,
     expires_at |-> UtcNowIso(t) + session_duration_seconds,
     created_at |-> UtcNowIso(t)]

\* The row issue_session inserts.
SessionRow(id, user_id, token, t) ==
    [id |-> id,
     user_id |-> user_id,
     token_hash |-> HashSessionToken(token),
     expires_at |-> UtcNowIso(t) + session_duration_seconds,
     created_at |-> UtcNowIso(t)]

\* (variant: no row is deleted before the insert)
IssueSession_NoSweep(sess, user_id, n, t) ==
    [token |-> Token(n),
     sessions |-> sess \cup {SessionRow(n, user_id, Token(n), t)}]

\* issue_session(conn, user_id): sweep the expired rows, insert the new one.
IssueSession(sess, user_id, n, t) ==
    LET kept == {s \in sess : ~(s.expires_at <= UtcNowIso(t))}
    IN  [token |-> Token(n),
         sessions |-> kept \cup {SessionRow(n, user_id, Token(n), t)}]

\* (variant: a session still resolves in the second it expires)
CurrentUser_ExpiryInclusive(token, sess, usrs, t) ==
    IF token = NoToken
    THEN None
    ELSE LET rows == {s \in sess : /\ s.token_hash = HashSessionToken(token)
                                   /\ s.expires_at >= UtcNowIso(t)
                                   /\ \E u \in usrs : u.id = s.user_id}
         IN  IF rows = {} THEN None ELSE (CHOOSE s \in rows : TRUE).user_id

\* _current_user: the id of the user the token's live session belongs to.
CurrentUser(token, sess, usrs, t) ==
    IF token = NoToken
    THEN None
    ELSE LET rows == {s \in sess : /\ s.token_hash = HashSessionToken(token)
                                   /\ s.expires_at > UtcNowIso(t)
                                   /\ \E u \in usrs : u.id = s.user_id}
         IN  IF rows = {} THEN None ELSE (CHOOSE s \in rows : TRUE).user_id

\* ---------------------------------------------------------------- CSRF
\* The values of the CSRF cookie and of the X-CSRF-Token header: absent (None),
\* empty, ASCII tokens, and a value with a character outside ASCII (a header
\* is decoded as latin-1, a quoted cookie value may hold octal escapes).
NoneStr == "<None>"
NonAsciiValue == "csrf-1-e-acute"
CsrfValues == {NoneStr, "", "csrf-1", "csrf-2", NonAsciiValue}
\* The (cookie, header) pairs the requests carry.
CsrfPairs == {<<"csrf-1", "csrf-1">>, <<"csrf-1", "csrf-2">>,
              <<"", "csrf-1">>, <<"csrf-1", NoneStr>>, <<"csrf-1", NonAsciiValue>>}

\* str.isascii()
IsAscii(value) == value # NonAsciiValue

\* hmac.compare_digest(a, b) on two str: TypeError ("comparing strings with
\* non-ASCII characters is not supported") unless both are ASCII.
CompareDigest(a, b) ==
    IF IsAscii(a) /\ IsAscii(b) THEN Returns(a = b) ELSE Raises

\* is_valid_csrf_pair: `not token` holds of None and of the empty string.
IsValidCsrfPair(cookie_token, header_token) ==
    IF cookie_token \in {NoneStr, ""} \/ header_token \in {NoneStr, ""}
    THEN Returns(FALSE)
    ELSE CompareDigest(cookie_token, header_token)

\* _require_csrf: passes, answers 403, or is left by the exception.
RequireCsrf(cookie_token, header_token) ==
    LET valid == IsValidCsrfPair(cookie_token, header_token)
    IN  IF valid.raises THEN "TypeError"
        ELSE IF valid.value THEN "ok" ELSE "403"

\* ------------------------------------------------------------- cookies
SESSION_COOKIE_NAME == "subtracker_session"
CSRF_COOKIE_NAME == "subtracker_csrf"
\* secrets.token_urlsafe(24): the values a new CSRF token may take.
FreshCsrfTokens == {"csrf-1", "csrf-2"}

\* ------------------------------------------------------------ os.environ
\* A variable that is not set.
Unset == "<unset>"
NoEnviron == [COOKIE_SECURE |-> Unset, COOKIE_SAMESITE |-> Unset, ENV |-> Unset,
              SESSION_DURATION_DAYS |-> Unset]

\* os.environ.get(name, default)
EnvironGet(name, default) ==
    IF environ[name] = Unset THEN default ELSE environ[name]

\* str.strip().lower() on the values the settings take
StripLower(value) ==
    CASE value = " TRUE " -> "true"
      [] value = "Production " -> "production"
      [] value = " strict " -> "strict"
      [] value = "None" -> "none"
      [] value = "Lax" -> "lax"
      [] OTHER -> value

\* str.strip().capitalize(): the first character upper case, the rest lower
StripCapitalize(value) ==
    CASE StripLower(value) = "none" -> "None"
      [] StripLower(value) = "strict" -> "Strict"
      [] StripLower(value) = "lax" -> "Lax"
      [] StripLower(value) = "bogus" -> "Bogus"
      [] OTHER -> StripLower(value)

\* (variant: the production posture does not turn Secure on)
ShouldUseSecureCookie_OverrideOnly ==
    StripLower(EnvironGet("COOKIE_SECURE", "")) \in {"1", "true", "yes", "on"}

\* should_use_secure_cookie()
ShouldUseSecureCookie ==
    IF StripLower(EnvironGet("COOKIE_SECURE", "")) \in {"1", "true", "yes", "on"}
    THEN TRUE
    ELSE StripLower(EnvironGet("ENV", "")) = "production"

\* cookie_samesite()
CookieSamesite ==
    LET raw == StripCapitalize(EnvironGet("COOKIE_SAMESITE", "Lax"))
    IN  IF raw \in {"Lax", "Strict", "None"} THEN raw ELSE "Lax"

\* build_cookie_header: the parts joined by "; ": name=value, Path=/, SameSite,
\* Max-Age, HttpOnly when http_only, Secure when should_use_secure_cookie().
BuildCookieHeader(name, value, max_age, http_only) ==
    [name |-> name, value |-> value, path |-> "/", samesite |-> CookieSamesite,
     max_age |-> max_age, http_only |-> http_only, secure |-> ShouldUseSecureCookie]

\* (variant: the CSRF cookie is built HttpOnly)
CsrfCookieHeader_HttpOnly(token) ==
    BuildCookieHeader(CSRF_COOKIE_NAME, token, session_duration_seconds, TRUE)

SessionCookieHeader(token) ==
    BuildCookieHeader(SESSION_COOKIE_NAME, token, session_duration_seconds, TRUE)
ClearSessionCookieHeader ==
    BuildCookieHeader(SESSION_COOKIE_NAME, "", 0, TRUE)
CsrfCookieHeader(token) ==
    BuildCookieHeader(CSRF_COOKIE_NAME, token, session_duration_seconds, FALSE)
ClearCsrfCookieHeader ==
    BuildCookieHeader(CSRF_COOKIE_NAME, "", 0, FALSE)

\* ----------------------------------------------------------- categories
DEFAULT_CATEGORIES ==
    <<"Streaming", "Productivity", "Utilities", "Fitness",
      "Storage", "Music", "Education", "Other">>

\* What a request may send as a category name.
CategoryInputs == {"Gaming", "gaming", " Gaming ", "Music", "", "G"}

\* normalize_category_name: whitespace collapsed and stripped, "Other" if empty.
NormalizeCategoryName(value) ==
    CASE value = " Gaming " -> "Gaming"
      [] value = "" -> "Other"
      [] OTHER -> value

\* len(name) of the names above.
NameLength(name) == IF name = "G" THEN 1 ELSE 5

\* COLLATE NOCASE: the name's class under case folding.
NoCase(name) == IF name = "Gaming" THEN "gaming" ELSE name

\* INSERT OR IGNORE INTO categories: ignored when UNIQUE(user_id, name) exists.
\* `store` is [categories, sequence]; created_at is utc_now_iso().
InsertOrIgnoreCategory(store, user_id, name, t) ==
    IF \E c \in store.categories :
          c.user_id = user_id /\ NoCase(c.name) = NoCase(name)
    THEN store
    ELSE [categories |-> store.categories \cup
                           {[id |-> store.sequence + 1, user_id |-> user_id,
                             name |-> name, created_at |-> UtcNowIso(t)]},
          sequence |-> store.sequence + 1]

RECURSIVE SeedFrom(_, _, _, _)
SeedFrom(i, store, user_id, t) ==
    IF i > Len(DEFAULT_CATEGORIES)
    THEN store
    ELSE SeedFrom(i + 1,
                  InsertOrIgnoreCategory(store, user_id,
                                         NormalizeCategoryName(DEFAULT_CATEGORIES[i]), t),
                  user_id, t)

\* seed_default_categories(conn, user_id)
SeedDefaultCategories(store, user_id, t) == SeedFrom(1, store, user_id, t)

\* ensure_category_exists(conn, user_id, category)
EnsureCategoryExists(store, user_id, category, t) ==
    InsertOrIgnoreCategory(store, user_id, NormalizeCategoryName(category), t)

\* The categories table with its AUTOINCREMENT counter.
CategoryStore == [categories |-> categories, sequence |-> sqlite_sequence.categories]

\* (variant: no row is ever found)
UserByEmail_Never(usrs, email) == {}

\* SELECT * FROM users WHERE email = ?; the UNIQUE index on users.email
UserByEmail(usrs, email) == {u \in usrs : u.email = email}

\* ------------------------------------------------------------------- state
NoReq == [ip |-> "", email |-> "", password |-> ""]
NoResp == [op |-> "none", status |-> 0, retry_after |-> 0, token |-> NoToken, user |-> None,
           extra_headers |-> <<>>, error |-> "", body |-> "", rows |-> {}]
NoRet == [op |-> "none", key |-> <<>>, at |-> 0, limited |-> FALSE, value |-> 0]
NoCalls == [n |-> 0, origin |-> "fresh"]

Init ==
    /\ now = 0
    /\ environ = NoEnviron
    /\ users = {}
    /\ sessions = {}
    /\ handed = <<>>
    /\ seen = <<>>
    /\ subscriptions = {}
    /\ categories = {}
    /\ sqlite_sequence = [subscriptions |-> 0, categories |-> 0]
    /\ login_rate_limits = <<>>
    /\ entries = <<>>
    /\ lock = NoThread
    /\ pc = [t \in Threads |-> "idle"]
    /\ req = [t \in Threads |-> NoReq]
    /\ cur = [t \in Threads |-> 0]
    /\ snap = [t \in Threads |-> NewEntry]
    /\ resp = NoResp
    /\ ret = NoRet
    /\ calls = [k \in Keys |-> NoCalls]

\* ------------------------------------------------- history of the failures
\* The failures counted per key; a direct caller stops there.
MaxFailures == max_attempts + 1

\* The lockout of `key` has elapsed at t: is_limited at t clears it.
LockoutElapsed(ents, key, t) ==
    /\ key \in DOMAIN ents
    /\ ents[key].locked_until # None
    /\ ents[key].locked_until <= t

CallsAfterCheck(ents, key, t) ==
    IF LockoutElapsed(ents, key, t)
    THEN [calls EXCEPT ![key] = [n |-> 0, origin |-> "elapsed"]]
    ELSE calls

CallsAfterFailure(key) ==
    [calls EXCEPT ![key] = [n |-> IF @.n < MaxFailures THEN @.n + 1 ELSE @.n,
                            origin |-> @.origin]]

CallsAfterClear(key) == [calls EXCEPT ![key] = NoCalls]

\* ------------------------------------------------------------ clock, process
Tick ==
    /\ now < MaxTime
    /\ now' = now + 1
    /\ UNCHANGED <<environ, dbVars, entries, lock, threadVars, resp, ret, calls>>

\* The clock, a whole second later.
TickSecond ==
    /\ now + TicksPerSecond <= MaxTime
    /\ now' = now + TicksPerSecond
    /\ UNCHANGED <<environ, dbVars, entries, lock, threadVars, resp, ret, calls>>

\* The server process stops and starts again: LOGIN_RATE_LIMITER is a fresh
\* LoginRateLimiter(), the requests in flight are gone, the sqlite file stays.
Restart ==
    /\ entries # <<>> \/ \E t \in Threads : pc[t] # "idle"
    /\ entries' = <<>>
    /\ lock' = NoThread
    /\ pc' = [t \in Threads |-> "idle"]
    /\ req' = [t \in Threads |-> NoReq]
    /\ cur' = [t \in Threads |-> 0]
    /\ snap' = [t \in Threads |-> NewEntry]
    /\ calls' = [k \in Keys |-> NoCalls]
    /\ UNCHANGED <<now, environ, dbVars, resp, ret>>

\* The process is given other settings (the tests' patch.dict("os.environ")).
PatchEnviron(env) ==
    /\ environ # env
    /\ environ' = env
    /\ UNCHANGED <<now, dbVars, entries, lock, threadVars, resp, ret, calls>>

\* ------------------------------------------- the limiter called directly
\* (as the unit tests call it, one call at a time, at the clock's time)
ApiIsLimited(key) ==
    /\ CanAcquire(NoThread)
    /\ LET r == IsLimited(entries, key, now)
       IN  /\ entries' = r.entries
           /\ ret' = [op |-> "is_limited", key |-> key, at |-> now,
                      limited |-> r.limited, value |-> r.retry_after]
    /\ calls' = CallsAfterCheck(entries, key, now)
    /\ UNCHANGED <<now, environ, dbVars, lock, threadVars, resp>>

ApiRegisterFailure(key) ==
    /\ CanAcquire(NoThread)
    /\ Len(SetDefault(entries, key).attempts) < MaxFailures
    /\ LET r == RegisterFailure(entries, key, now)
       IN  /\ entries' = r.entries
           /\ ret' = [op |-> "register_failure", key |-> key, at |-> now,
                      limited |-> FALSE, value |-> r.lock_seconds]
    /\ calls' = CallsAfterFailure(key)
    /\ UNCHANGED <<now, environ, dbVars, lock, threadVars, resp>>

ApiClear(key) ==
    /\ CanAcquire(NoThread)
    /\ entries' = Clear(entries, key)
    /\ ret' = [op |-> "clear", key |-> key, at |-> now, limited |-> FALSE, value |-> 0]
    /\ calls' = CallsAfterClear(key)
    /\ UNCHANGED <<now, environ, dbVars, lock, threadVars, resp>>

\* The key the direct calls are made for.
ApiKeys == {LimitKey("10.0.0.1", "ann@x.io")}

NextLimiter ==
    \/ Tick
    \/ Restart
    \/ \E key \in ApiKeys : ApiIsLimited(key)
    \/ \E key \in ApiKeys : ApiRegisterFailure(key)
    \/ \E key \in ApiKeys : ApiClear(key)

SpecLimiter == Init /\ [][NextLimiter]_vars

\* Failures registered and cleared for every key.
NextClear ==
    \/ TickSecond
    \/ \E key \in Keys : ApiRegisterFailure(key)
    \/ \E key \in Keys : ApiClear(key)

SpecClear == Init /\ [][NextClear]_vars

\* ------------------------------------------------------------ the handlers
Response(op, status, retry_after, token, user) ==
    [op |-> op, status |-> status, retry_after |-> retry_after,
     token |-> token, user |-> user, extra_headers |-> <<>>, error |-> "",
     body |-> "", rows |-> {}]

\* _send_json({"error": message}, ...)
WithBody(response, body) ==
    [response EXCEPT !.body = body]

\* _send_json of the rows a read handler selected
WithRows(response, rows) ==
    [response EXCEPT !.rows = rows]

\* _send_json(..., extra_headers=[...])
WithHeaders(response, extra_headers) ==
    [response EXCEPT !.extra_headers = extra_headers]

\* The handler is left by an exception: the thread serving the request logs it
\* and closes the connection, no response is written.
Unanswered(op, error) ==
    [Response(op, 0, 0, NoToken, None) EXCEPT !.error = error]

\* The index in `handed` (and `seen`) of the session row of the token's hash
\* (token_hash is UNIQUE).
SessionOf(token, sess) ==
    (CHOOSE s \in sess : s.token_hash = HashSessionToken(token)).id

\* The history of the sessions' use, after a request that resolved `token`.
SeenAfterResolve(token) ==
    IF CurrentUser(token, sessions, users, now) = None
    THEN seen
    ELSE [seen EXCEPT ![SessionOf(token, sessions)] = now]

InFlight == {t \in Threads : pc[t] # "idle"}

\* Sessions still to be issued within the bound, counting the logins in flight.
TokensLeft == Len(handed) + Cardinality(InFlight) < MaxTokens

\* The request is answered: the handler's locals are gone.
Done(t) ==
    /\ pc' = [pc EXCEPT ![t] = "idle"]
    /\ req' = [req EXCEPT ![t] = NoReq]
    /\ cur' = [cur EXCEPT ![t] = 0]
    /\ snap' = [snap EXCEPT ![t] = NewEntry]

\* _auth_signup: INSERT the user and issue_session in one transaction; the
\* UNIQUE(email) violation rolls back and answers 409.
Signup(email, password, salt) ==
    /\ IF UserByEmail(users, email) # {}
       THEN /\ resp' = WithBody(Response("signup", 409, 0, NoToken, None),
                                 "An account with that email already exists")
            /\ UNCHANGED dbVars
       ELSE /\ TokensLeft
            /\ LET user_id == Cardinality(users) + 1
                   r == IssueSession(sessions, user_id, Len(handed) + 1, now)
                   seeded == SeedDefaultCategories(CategoryStore, user_id, now)
               IN  /\ users' = users \cup {[id |-> user_id, email |-> email,
                                            password_hash |-> HashPassword(password, salt)]}
                   /\ sessions' = r.sessions
                   /\ handed' = Append(handed, [token |-> r.token, user_id |-> user_id])
                   /\ seen' = Append(seen, now)
                   /\ categories' = seeded.categories
                   /\ sqlite_sequence' = [sqlite_sequence EXCEPT !.categories = seeded.sequence]
                   /\ \E csrf_token \in FreshCsrfTokens :
                         resp' = WithHeaders(Response("signup", 201, 0, r.token, user_id),
                                             <<SessionCookieHeader(r.token),
                                               CsrfCookieHeader(csrf_token)>>)
                   /\ UNCHANGED <<subscriptions, login_rate_limits>>
    /\ UNCHANGED <<now, environ, entries, lock, threadVars, ret, calls>>

\* The user the login's email and password verify for, if any.
Authenticated(usrs, email, password) ==
    {u \in UserByEmail(usrs, email) :
        VerifyPassword(password, u.password_hash) = Returns(TRUE)}

\* _auth_login up to the call of is_limited, which reads the time and then
\* waits for the limiter's lock.
LoginBegin(t, ip, email, password) ==
    /\ pc[t] = "idle"
    /\ Authenticated(users, email, password) # {} => TokensLeft
    /\ pc' = [pc EXCEPT ![t] = "check"]
    /\ req' = [req EXCEPT ![t] = [ip |-> ip, email |-> email, password |-> password]]
    /\ cur' = [cur EXCEPT ![t] = now]
    /\ UNCHANGED <<now, environ, dbVars, entries, lock, snap, resp, ret, calls>>

ReqKey(t) == LimitKey(req[t].ip, req[t].email)

\* is_limited under the lock, and the 429 of a limited key.
LoginCheck(t) ==
    /\ pc[t] = "check"
    /\ CanAcquire(t)
    /\ LET r == IsLimited(entries, ReqKey(t), cur[t])
       IN  /\ entries' = r.entries
           /\ IF r.limited
              THEN /\ resp' = WithBody(Response("login", 429, r.retry_after, NoToken, None),
                                        "Too many login attempts. Try again later.")
                   /\ Done(t)
              ELSE /\ pc' = [pc EXCEPT ![t] = "verify"]
                   /\ UNCHANGED <<req, cur, snap, resp>>
    /\ UNCHANGED <<now, environ, dbVars, lock, ret, calls>>

\* SELECT the user and verify_password; on failure register_failure is called
\* and reads the time.
LoginVerify(t) ==
    /\ pc[t] = "verify"
    /\ IF Authenticated(users, req[t].email, req[t].password) = {}
       THEN /\ pc' = [pc EXCEPT ![t] = "fail"]
            /\ cur' = [cur EXCEPT ![t] = now]
       ELSE /\ pc' = [pc EXCEPT ![t] = "success"]
            /\ UNCHANGED cur
    /\ UNCHANGED <<now, environ, dbVars, entries, lock, req, snap, resp, ret, calls>>

\* register_failure enters the lock and reads the key's entry (setdefault).
LoginFailLock(t) ==
    /\ pc[t] = "fail"
    /\ CanAcquire(t)
    /\ lock' = t
    /\ snap' = [snap EXCEPT ![t] = SetDefault(entries, ReqKey(t))]
    /\ entries' = Put(entries, ReqKey(t), SetDefault(entries, ReqKey(t)))
    /\ pc' = [pc EXCEPT ![t] = "locked"]
    /\ UNCHANGED <<now, environ, dbVars, req, cur, resp, ret, calls>>

\* (variant: an email without a user row is answered 404)
FailedLoginResponse_NotFound(user, lock_seconds) ==
    IF user = {}
    THEN WithBody(Response("login", 404, 0, NoToken, None), "No account with that email")
    ELSE IF lock_seconds > 0
    THEN WithBody(Response("login", 429, lock_seconds, NoToken, None),
                  "Too many login attempts. Try again later.")
    ELSE WithBody(Response("login", 401, 0, NoToken, None), "Invalid email or password")

\* The answer in the branch `user is None or not verify_password(...)`: 429
\* with Retry-After when register_failure set a lockout and 401 otherwise.
\* `user` is the handler's local, the rows selected for the email.
FailedLoginResponse(user, lock_seconds) ==
    IF lock_seconds > 0
    THEN WithBody(Response("login", 429, lock_seconds, NoToken, None),
                  "Too many login attempts. Try again later.")
    ELSE WithBody(Response("login", 401, 0, NoToken, None), "Invalid email or password")

\* register_failure writes the entry, leaves the lock and returns; the handler
\* answers 429 when a lockout was set and 401 otherwise.
LoginFailStore(t) ==
    /\ pc[t] = "locked"
    /\ LET written == FailedEntry(snap[t], cur[t])
       IN  /\ entries' = Put(entries, ReqKey(t), written)
           /\ resp' = FailedLoginResponse(UserByEmail(users, req[t].email),
                                          LockSeconds(written))
    /\ lock' = NoThread
    /\ Done(t)
    /\ UNCHANGED <<now, environ, dbVars, ret, calls>>

\* The password verified: issue_session, LOGIN_RATE_LIMITER.clear, commit, 200.
LoginSucceed(t) ==
    /\ pc[t] = "success"
    /\ CanAcquire(t)
    /\ Len(handed) < MaxTokens
    /\ LET user == CHOOSE u \in UserByEmail(users, req[t].email) : TRUE
           seeded == SeedDefaultCategories(CategoryStore, user.id, now)
           r == IssueSession(sessions, user.id, Len(handed) + 1, now)
       IN  /\ categories' = seeded.categories
           /\ sqlite_sequence' = [sqlite_sequence EXCEPT !.categories = seeded.sequence]
           /\ sessions' = r.sessions
           /\ handed' = Append(handed, [token |-> r.token, user_id |-> user.id])
           /\ seen' = Append(seen, now)
           /\ \E csrf_token \in FreshCsrfTokens :
                 resp' = WithHeaders(Response("login", 200, 0, r.token, user.id),
                                     <<SessionCookieHeader(r.token),
                                       CsrfCookieHeader(csrf_token)>>)
    /\ entries' = Clear(entries, ReqKey(t))
    /\ Done(t)
    /\ UNCHANGED <<now, environ, users, subscriptions, login_rate_limits, lock, ret, calls>>

\* The tokens a request's session cookie may carry.
CookieTokens == {NoToken, BogusToken} \cup {handed[i].token : i \in 1..Len(handed)}

\* (variant: a token that matches no row takes the oldest session with it)
DeleteSession_OldestWhenAbsent(sess, token) ==
    IF \E s \in sess : s.token_hash = HashSessionToken(token)
    THEN {s \in sess : s.token_hash # HashSessionToken(token)}
    ELSE {s \in sess : \E o \in sess : o.id < s.id}

\* (variant: the row is kept until it expires)
DeleteSession_KeepsRow(sess, token) == sess

\* DELETE FROM sessions WHERE token_hash = ?
DeleteSession(sess, token) ==
    {s \in sess : s.token_hash # HashSessionToken(token)}

\* _auth_logout: with a session cookie the CSRF pair is required; the session
\* row of the token is deleted and both cookies are cleared.
Logout(token, cookie_token, header_token) ==
    LET csrf == IF token = UnparsableCookie THEN "CookieError"
                ELSE IF token # NoToken THEN RequireCsrf(cookie_token, header_token)
                ELSE "ok"
    IN  /\ CASE csrf = "CookieError" ->
                  /\ resp' = Unanswered("logout", "CookieError")
                  /\ UNCHANGED sessions
              [] csrf = "TypeError" ->
                  /\ resp' = Unanswered("logout", "TypeError")
                  /\ UNCHANGED sessions
              [] csrf = "403" ->
                  /\ resp' = Response("logout", 403, 0, NoToken, None)
                  /\ UNCHANGED sessions
              [] OTHER ->
                  /\ sessions' = IF token # NoToken
                                  THEN DeleteSession(sessions, token)
                                  ELSE sessions
                  /\ resp' = WithHeaders(Response("logout", 200, 0, token, None),
                                         <<ClearSessionCookieHeader, ClearCsrfCookieHeader>>)
        /\ UNCHANGED <<now, environ, users, handed, seen, storeVars, entries, lock, threadVars,
                       ret, calls>>

\* _get_auth_me: the user of the session cookie, or none; an authenticated
\* caller without a CSRF cookie is sent a new one.
GetAuthMe(token, cookie_token) ==
    LET user == CurrentUser(token, sessions, users, now)
    IN  /\ IF token = UnparsableCookie
           THEN resp' = Unanswered("me", "CookieError")
           ELSE IF user = None
           THEN resp' = Response("me", 200, 0, token, None)
           ELSE IF cookie_token \in {NoneStr, ""}
                THEN \E csrf_token \in FreshCsrfTokens :
                        resp' = WithHeaders(Response("me", 200, 0, token, user),
                                            <<CsrfCookieHeader(csrf_token)>>)
                ELSE resp' = Response("me", 200, 0, token, user)
        /\ seen' = SeenAfterResolve(token)
        /\ UNCHANGED <<now, environ, users, sessions, handed, storeVars, entries, lock,
                       threadVars, ret, calls>>

\* ------------------------------------------- subscriptions and categories
CYCLE_TO_MONTHS == [monthly |-> 1, quarterly |-> 3, yearly |-> 12]
\* The strings datetime.strptime(value, "%Y-%m-%d") accepts, among those sent.
ParsableDates == {"2026-03-01"}

\* The JSON bodies of the subscription requests.
GoodBody(category) ==
    [name |-> "Netflix", category |-> category, amount |-> 999,
     billingCycle |-> "monthly", nextPaymentDate |-> "2026-03-01"]
SubscriptionBodies ==
    {GoodBody("Gaming"), GoodBody("Music"), [GoodBody("Music") EXCEPT !.amount = 0]}

\* parse_subscription_payload: (payload, error)
ParseSubscriptionPayload(body) ==
    LET payload == [name |-> body.name,
                    category |-> NormalizeCategoryName(body.category),
                    amount |-> body.amount,
                    billing_cycle |-> body.billingCycle,
                    payment_date |-> body.nextPaymentDate]
    IN  IF body.name = ""
        THEN [payload |-> payload, error |-> "Subscription name is required"]
        ELSE IF body.amount <= 0
        THEN [payload |-> payload, error |-> "Amount must be greater than 0"]
        ELSE IF body.billingCycle \notin DOMAIN CYCLE_TO_MONTHS
        THEN [payload |-> payload,
              error |-> "Billing cycle must be monthly, quarterly, or yearly"]
        ELSE IF body.nextPaymentDate \notin ParsableDates
        THEN [payload |-> payload, error |-> "nextPaymentDate must be YYYY-MM-DD"]
        ELSE [payload |-> payload, error |-> ""]

\* _require_auth_user: _session_token_from_cookie raises CookieError on a
\* Cookie header SimpleCookie.load rejects, before any session is looked up.
RequireAuthUser(token) ==
    IF token = UnparsableCookie
    THEN "CookieError"
    ELSE IF CurrentUser(token, sessions, users, now) = None
    THEN "401"
    ELSE "ok"

\* _require_auth_user, then _require_csrf: what stops the request, if anything.
Gate(token, cookie_token, header_token) ==
    IF RequireAuthUser(token) # "ok"
    THEN RequireAuthUser(token)
    ELSE RequireCsrf(cookie_token, header_token)

\* The answer of a request the gate stopped.
Refusal(op, gate) ==
    CASE gate = "401" ->
            WithBody(Response(op, 401, 0, NoToken, None), "Authentication required")
      [] gate = "403" ->
            WithBody(Response(op, 403, 0, NoToken, None), "Invalid CSRF token")
      [] OTHER -> Unanswered(op, gate)

\* What every subscription and category handler leaves alone.
HandlerFrame ==
    UNCHANGED <<now, environ, users, sessions, handed, login_rate_limits, entries, lock,
                threadVars, ret, calls>>

SubscriptionRow(id, user_id, payload, t) ==
    [id |-> id, user_id |-> user_id, name |-> payload.name,
     category |-> payload.category, amount |-> payload.amount,
     billing_cycle |-> payload.billing_cycle,
     next_payment_date |-> payload.payment_date, created_at |-> UtcNowIso(t)]

\* (variant: the row of the id, whoever owns it)
OwnedRows_AnyOwner(table, id, user_id) == {r \in table : r.id = id}

\* WHERE id = ? AND user_id = ?
OwnedRows(table, id, user_id) == {r \in table : r.id = id /\ r.user_id = user_id}

\* _get_subscriptions: the user's rows.
GetSubscriptions(token) ==
    LET op == "get_subscriptions"
        gate == RequireAuthUser(token)
        user_id == CurrentUser(token, sessions, users, now)
    IN  /\ resp' = IF gate # "ok"
                   THEN Refusal(op, gate)
                   ELSE WithRows(Response(op, 200, 0, NoToken, user_id),
                                 {r \in subscriptions : r.user_id = user_id})
        /\ seen' = SeenAfterResolve(token)
        /\ UNCHANGED <<subscriptions, categories, sqlite_sequence>>
        /\ HandlerFrame

\* _get_categories: id and name of the user's categories.
GetCategories(token) ==
    LET op == "get_categories"
        gate == RequireAuthUser(token)
        user_id == CurrentUser(token, sessions, users, now)
    IN  /\ resp' = IF gate # "ok"
                   THEN Refusal(op, gate)
                   ELSE WithRows(Response(op, 200, 0, NoToken, user_id),
                                 {[id |-> c.id, name |-> c.name] :
                                     c \in {x \in categories : x.user_id = user_id}})
        /\ seen' = SeenAfterResolve(token)
        /\ UNCHANGED <<subscriptions, categories, sqlite_sequence>>
        /\ HandlerFrame

\* _get_reminders: one reminder per subscription of the user.
GetReminders(token) ==
    LET op == "get_reminders"
        gate == RequireAuthUser(token)
        user_id == CurrentUser(token, sessions, users, now)
    IN  /\ resp' = IF gate # "ok"
                   THEN Refusal(op, gate)
                   ELSE WithRows(Response(op, 200, 0, NoToken, user_id),
                                 {[id |-> r.id, name |-> r.name, amount |-> r.amount,
                                   billingCycle |-> r.billing_cycle] :
                                     r \in {x \in subscriptions : x.user_id = user_id}})
        /\ seen' = SeenAfterResolve(token)
        /\ UNCHANGED <<subscriptions, categories, sqlite_sequence>>
        /\ HandlerFrame

\* _create_subscription
CreateSubscription(token, cookie_token, header_token, body) ==
    LET op == "create_subscription"
        gate == Gate(token, cookie_token, header_token)
        user_id == CurrentUser(token, sessions, users, now)
        parsed == ParseSubscriptionPayload(body)
    IN  /\ IF gate # "ok"
           THEN /\ resp' = Refusal(op, gate)
                /\ UNCHANGED <<subscriptions, categories, sqlite_sequence>>
           ELSE IF parsed.error # ""
           THEN /\ resp' = Response(op, 400, 0, NoToken, user_id)
                /\ UNCHANGED <<subscriptions, categories, sqlite_sequence>>
           ELSE /\ sqlite_sequence.subscriptions < MaxSubscriptions
                /\ LET store == EnsureCategoryExists(CategoryStore, user_id,
                                                     parsed.payload.category, now)
                       new_id == sqlite_sequence.subscriptions + 1
                   IN  /\ categories' = store.categories
                       /\ subscriptions' = subscriptions \cup
                             {SubscriptionRow(new_id, user_id, parsed.payload, now)}
                       /\ sqlite_sequence' = [subscriptions |-> new_id,
                                              categories |-> store.sequence]
                /\ resp' = Response(op, 201, 0, NoToken, user_id)
        /\ seen' = SeenAfterResolve(token)
        /\ HandlerFrame

\* _update_subscription: the category is inserted before the UPDATE and stays
\* when the UPDATE finds no row (the connection commits on return).
UpdateSubscription(token, cookie_token, header_token, sub_id, body) ==
    LET op == "update_subscription"
        gate == Gate(token, cookie_token, header_token)
        user_id == CurrentUser(token, sessions, users, now)
        parsed == ParseSubscriptionPayload(body)
    IN  /\ IF gate # "ok"
           THEN /\ resp' = Refusal(op, gate)
                /\ UNCHANGED <<subscriptions, categories, sqlite_sequence>>
           ELSE IF parsed.error # ""
           THEN /\ resp' = Response(op, 400, 0, NoToken, user_id)
                /\ UNCHANGED <<subscriptions, categories, sqlite_sequence>>
           ELSE LET store == EnsureCategoryExists(CategoryStore, user_id,
                                                  parsed.payload.category, now)
                    rows == OwnedRows(subscriptions, sub_id, user_id)
                    Updated(r) == [r EXCEPT !.name = parsed.payload.name,
                                            !.category = parsed.payload.category,
                                            !.amount = parsed.payload.amount,
                                            !.billing_cycle = parsed.payload.billing_cycle,
                                            !.next_payment_date = parsed.payload.payment_date]
                IN  /\ categories' = store.categories
                    /\ sqlite_sequence' = [sqlite_sequence EXCEPT
                                             !.categories = store.sequence]
                    /\ subscriptions' = (subscriptions \ rows) \cup
                                            {Updated(r) : r \in rows}
                    /\ resp' = IF rows = {}
                               THEN Response(op, 404, 0, NoToken, user_id)
                               ELSE Response(op, 200, 0, NoToken, user_id)
        /\ seen' = SeenAfterResolve(token)
        /\ HandlerFrame

\* _delete_subscription
DeleteSubscription(token, cookie_token, header_token, sub_id) ==
    LET op == "delete_subscription"
        gate == Gate(token, cookie_token, header_token)
        user_id == CurrentUser(token, sessions, users, now)
        rows == OwnedRows(subscriptions, sub_id, user_id)
    IN  /\ IF gate # "ok"
           THEN /\ resp' = Refusal(op, gate)
                /\ UNCHANGED subscriptions
           ELSE /\ subscriptions' = subscriptions \ rows
                /\ resp' = IF rows = {}
                           THEN Response(op, 404, 0, NoToken, user_id)
                           ELSE Response(op, 200, 0, NoToken, user_id)
        /\ seen' = SeenAfterResolve(token)
        /\ UNCHANGED <<categories, sqlite_sequence>>
        /\ HandlerFrame

\* _create_category: UNIQUE(user_id, name) under NOCASE answers 409.
CreateCategory(token, cookie_token, header_token, input) ==
    LET op == "create_category"
        gate == Gate(token, cookie_token, header_token)
        user_id == CurrentUser(token, sessions, users, now)
        name == NormalizeCategoryName(input)
        store == InsertOrIgnoreCategory(CategoryStore, user_id, name, now)
    IN  /\ IF gate # "ok"
           THEN /\ resp' = Refusal(op, gate)
                /\ UNCHANGED <<categories, sqlite_sequence>>
           ELSE IF NameLength(name) < 2 \/ NameLength(name) > 40
           THEN /\ resp' = Response(op, 400, 0, NoToken, user_id)
                /\ UNCHANGED <<categories, sqlite_sequence>>
           ELSE IF store = CategoryStore
           THEN /\ resp' = Response(op, 409, 0, NoToken, user_id)
                /\ UNCHANGED <<categories, sqlite_sequence>>
           ELSE /\ categories' = store.categories
                /\ sqlite_sequence' = [sqlite_sequence EXCEPT
                                         !.categories = store.sequence]
                /\ resp' = Response(op, 201, 0, NoToken, user_id)
        /\ seen' = SeenAfterResolve(token)
        /\ UNCHANGED subscriptions
        /\ HandlerFrame

\* _delete_category: refused with 409 while a subscription of the user uses it.
DeleteCategory(token, cookie_token, header_token, category_id) ==
    LET op == "delete_category"
        gate == Gate(token, cookie_token, header_token)
        user_id == CurrentUser(token, sessions, users, now)
        rows == OwnedRows(categories, category_id, user_id)
        InUse(c) == \E r \in subscriptions :
                        r.user_id = user_id /\ NoCase(r.category) = NoCase(c.name)
    IN  /\ IF gate # "ok"
           THEN /\ resp' = Refusal(op, gate)
                /\ UNCHANGED categories
           ELSE IF rows = {}
           THEN /\ resp' = Response(op, 404, 0, NoToken, user_id)
                /\ UNCHANGED categories
           ELSE IF \E c \in rows : InUse(c)
           THEN /\ resp' = Response(op, 409, 0, NoToken, user_id)
                /\ UNCHANGED categories
           ELSE /\ sqlite_sequence.categories - Cardinality(categories)
                      < MaxDeletedCategories
                /\ categories' = categories \ rows
                /\ resp' = Response(op, 200, 0, NoToken, user_id)
        /\ seen' = SeenAfterResolve(token)
        /\ UNCHANGED <<subscriptions, sqlite_sequence>>
        /\ HandlerFrame

\* The login handler, step by step, of the threads `threads`.
LoginSteps(threads, emails, passwords) ==
    \/ \E t \in threads, ip \in Ips, e \in emails, p \in passwords : LoginBegin(t, ip, e, p)
    \/ \E t \in threads : LoginCheck(t)
    \/ \E t \in threads : LoginVerify(t)
    \/ \E t \in threads : LoginFailLock(t)
    \/ \E t \in threads : LoginFailStore(t)
    \/ \E t \in threads : LoginSucceed(t)

\* is_valid_csrf_pair called directly, as the unit test calls it.
ApiIsValidCsrfPair(cookie_token, header_token) ==
    /\ ret' = [op |-> "is_valid_csrf_pair", key |-> <<cookie_token, header_token>>,
               at |-> now, limited |-> FALSE,
               value |-> IsValidCsrfPair(cookie_token, header_token)]
    /\ UNCHANGED <<now, environ, dbVars, entries, lock, threadVars, resp, calls>>

\* ------------------------------------------- hash_password, verify_password
\* The stored encodings verify_password is given: those hash_password wrote,
\* and malformed ones: no ":", a salt or a digest that is not hex, a second
\* ":", an empty digest.
StoredEncodings ==
    {HashPassword(password, salt) : password \in Passwords, salt \in Salts}
      \cup {<<NotHex>>, <<Hex(0)>>, <<NotHex, Hex(0)>>, <<Hex(0), NotHex>>,
             <<Hex(0), Hex(0), Hex(0)>>, <<Hex(0), Hex(EmptyBytes)>>}

\* hash_password called directly; the salt is the one secrets.token_bytes drew.
ApiHashPassword(password, salt) ==
    /\ ret' = [op |-> "hash_password", key |-> <<password, salt>>, at |-> now,
               limited |-> FALSE, value |-> HashPassword(password, salt)]
    /\ UNCHANGED <<now, environ, dbVars, entries, lock, threadVars, resp, calls>>

\* verify_password called directly.
ApiVerifyPassword(password, encoded_hash) ==
    /\ ret' = [op |-> "verify_password", key |-> <<password, encoded_hash>>, at |-> now,
               limited |-> FALSE, value |-> VerifyPassword(password, encoded_hash)]
    /\ UNCHANGED <<now, environ, dbVars, entries, lock, threadVars, resp, calls>>

\* Passwords hashed and verified against every stored encoding.
NextPassword ==
    \/ Tick
    \/ \E password \in Passwords, salt \in Salts : ApiHashPassword(password, salt)
    \/ \E password \in Passwords, encoded_hash \in StoredEncodings :
          ApiVerifyPassword(password, encoded_hash)

SpecPassword == Init /\ [][NextPassword]_vars

\* ------------------------------------------------- build_cookie_header
\* The settings of the cookie attributes, as the deployment may write them.
CookieEnvirons ==
    [COOKIE_SECURE : {Unset, "0", "1", " TRUE "},
     COOKIE_SAMESITE : {Unset, "None", "none", " strict ", "bogus"},
     ENV : {Unset, "production", "Production ", "development"},
     SESSION_DURATION_DAYS : {Unset}]

\* build_cookie_header called directly, as the unit test calls it.
ApiBuildCookieHeader(name, value, max_age, http_only) ==
    /\ ret' = [op |-> "build_cookie_header", key |-> <<name, value, max_age, http_only>>,
               at |-> now, limited |-> FALSE,
               value |-> BuildCookieHeader(name, value, max_age, http_only)]
    /\ UNCHANGED <<now, environ, dbVars, entries, lock, threadVars, resp, calls>>

\* Cookie headers built under every combination of the settings.
NextCookie ==
    \/ \E env \in CookieEnvirons : PatchEnviron(env)
    \/ \E name \in {SESSION_COOKIE_NAME, CSRF_COOKIE_NAME}, value \in {"", "value"},
          max_age \in {0, session_duration_seconds}, http_only \in BOOLEAN :
          ApiBuildCookieHeader(name, value, max_age, http_only)

SpecCookie == Init /\ [][NextCookie]_vars

\* The settings of the session duration: the posture and the number of days.
DurationEnvirons ==
    [COOKIE_SECURE : {Unset},
     COOKIE_SAMESITE : {Unset},
     ENV : {Unset, "production"},
     SESSION_DURATION_DAYS : {Unset, "3"}]

\* Sessions issued under every setting of the session duration.
NextDuration ==
    \/ TickSecond
    \/ \E env \in DurationEnvirons : PatchEnviron(env)
    \/ \E e \in Emails, p \in {"pw-one"}, salt \in {0} : Signup(e, p, salt)

SpecDuration == Init /\ [][NextDuration]_vars

\* ------------------------------------------------ table login_rate_limits
\* The retention horizon of stale rate-limit rows, in seconds.
MaxRetentionSeconds == 2
Retentions == 1..MaxRetentionSeconds

LimiterKeys == {"old-attempts", "expired-lock", "active-lock"}
\* The lockouts of the inserted rows end up to this long after the last time.
MaxLockAhead == 1
StoredTimes == 0..MaxSeconds
LockTimes == {None} \cup (0..(MaxSeconds + MaxLockAhead))

\* A row of login_rate_limits; the timestamps are ISO strings of whole seconds.
RateLimitRow(failed_attempts, first_failed_at, last_failed_at, locked_until) ==
    [failed_attempts |-> failed_attempts,
     first_failed_at |-> first_failed_at,
     last_failed_at |-> last_failed_at,
     locked_until |-> locked_until]

\* INSERT INTO login_rate_limits (limiter_key, failed_attempts, first_failed_at,
\* last_failed_at, locked_until): a row of one failure without a lockout, or of
\* max_attempts failures with one that ends after them, its failures not later
\* than the clock.
InsertLoginRateLimit(limiter_key, last_failed_at, locked_until) ==
    /\ limiter_key \notin DOMAIN login_rate_limits
    /\ last_failed_at <= UtcNowIso(now)
    /\ locked_until # None => locked_until > last_failed_at
    /\ login_rate_limits' =
          Put(login_rate_limits, limiter_key,
              RateLimitRow(IF locked_until = None THEN 1 ELSE max_attempts,
                           last_failed_at, last_failed_at, locked_until))
    /\ UNCHANGED <<now, environ, users, sessions, handed, seen, subscriptions, categories,
                   sqlite_sequence, entries, lock, threadVars, resp, ret, calls>>

\* (variant: a row is judged by its last failure alone, a lockout in the
\* future does not keep it)
IsStaleRow_IgnoresLockout(row, t, retention) ==
    row.last_failed_at < UtcNowIso(t) - retention

\* The rows cleanup deletes: those whose lockout has ended, and those without
\* a lockout whose last failure is older than the retention horizon.
IsStaleRow(row, t, retention) ==
    IF row.locked_until # None
    THEN row.locked_until <= UtcNowIso(t)
    ELSE row.last_failed_at < UtcNowIso(t) - retention

\* cleanup_login_rate_limits(conn, now=..., retention=...): deletes the stale
\* rows and returns their number.
CleanupLoginRateLimits(rows, t, retention) ==
    LET stale == {k \in DOMAIN rows : IsStaleRow(rows[k], t, retention)}
    IN  [deleted |-> Cardinality(stale),
         rows |-> [k \in DOMAIN rows \ stale |-> rows[k]]]

ApiCleanupLoginRateLimits(retention) ==
    /\ LET r == CleanupLoginRateLimits(login_rate_limits, now, retention)
       IN  /\ login_rate_limits' = r.rows
           /\ ret' = [op |-> "cleanup_login_rate_limits", key |-> <<retention>>,
                      at |-> now, limited |-> FALSE, value |-> r.deleted]
    /\ UNCHANGED <<now, environ, users, sessions, handed, seen, subscriptions, categories,
                   sqlite_sequence, entries, lock, threadVars, resp, calls>>

\* Rows inserted and swept, as the unit test does.
NextCleanup ==
    \/ TickSecond
    \/ \E limiter_key \in LimiterKeys, last_failed_at \in StoredTimes,
          locked_until \in LockTimes :
          InsertLoginRateLimit(limiter_key, last_failed_at, locked_until)
    \/ \E retention \in Retentions : ApiCleanupLoginRateLimits(retention)

SpecCleanup == Init /\ [][NextCleanup]_vars

\* The pair validation alone, on every pair of values.
NextCsrfPair ==
    \/ Tick
    \/ \E cookie_token \in CsrfValues, header_token \in CsrfValues :
          ApiIsValidCsrfPair(cookie_token, header_token)

SpecCsrfPair == Init /\ [][NextCsrfPair]_vars

\* The ids a request may name: those of the subscriptions there are, of the
\* categories the requests name, and one of no row.
SubscriptionIds == {r.id : r \in subscriptions} \cup {0}
CategoryIds ==
    {c.id : c \in {x \in categories :
                     \E input \in CategoryInputs :
                        NoCase(x.name) = NoCase(NormalizeCategoryName(input))}}
       \cup {0}

\* The state-changing requests of a signed-up user, with every kind of session
\* cookie and CSRF pair, and GET /api/auth/me, within one second.
NextCsrf ==
    \/ \E e \in {"ann@x.io"}, p \in {"pw-one"}, salt \in {0} : Signup(e, p, salt)
    \/ \E token \in CookieTokens, cookie_token \in CsrfValues :
          GetAuthMe(token, cookie_token)
    \/ \E token \in CookieTokens, pair \in CsrfPairs, body \in SubscriptionBodies :
          CreateSubscription(token, pair[1], pair[2], body)
    \/ \E token \in CookieTokens, pair \in CsrfPairs, body \in SubscriptionBodies,
          sub_id \in SubscriptionIds :
          UpdateSubscription(token, pair[1], pair[2], sub_id, body)
    \/ \E token \in CookieTokens, pair \in CsrfPairs, sub_id \in SubscriptionIds :
          DeleteSubscription(token, pair[1], pair[2], sub_id)
    \/ \E token \in CookieTokens, pair \in CsrfPairs, input \in CategoryInputs :
          CreateCategory(token, pair[1], pair[2], input)
    \/ \E token \in CookieTokens, pair \in CsrfPairs, category_id \in CategoryIds :
          DeleteCategory(token, pair[1], pair[2], category_id)
    \/ \E token \in CookieTokens, pair \in CsrfPairs : Logout(token, pair[1], pair[2])

SpecCsrf == Init /\ [][NextCsrf]_vars

\* The session cookies of the requests to the protected endpoints: none, an
\* unknown token, the issued tokens, and a Cookie header that does not parse.
ProtectedCookies == CookieTokens \cup {UnparsableCookie}
ValidCsrfPairs == {<<"csrf-1", "csrf-1">>}

\* Reads and writes of subscriptions, categories and reminders with every
\* kind of session cookie, over the life of a session.
NextProtected ==
    \/ TickSecond
    \/ \E e \in {"ann@x.io"}, p \in {"pw-one"}, salt \in {0} : Signup(e, p, salt)
    \/ \E token \in ProtectedCookies : GetSubscriptions(token)
    \/ \E token \in ProtectedCookies : GetCategories(token)
    \/ \E token \in ProtectedCookies : GetReminders(token)
    \/ \E token \in ProtectedCookies, pair \in ValidCsrfPairs, body \in SubscriptionBodies :
          CreateSubscription(token, pair[1], pair[2], body)
    \/ \E token \in ProtectedCookies, pair \in ValidCsrfPairs, body \in SubscriptionBodies,
          sub_id \in SubscriptionIds :
          UpdateSubscription(token, pair[1], pair[2], sub_id, body)
    \/ \E token \in ProtectedCookies, pair \in ValidCsrfPairs, sub_id \in SubscriptionIds :
          DeleteSubscription(token, pair[1], pair[2], sub_id)
    \/ \E token \in ProtectedCookies, pair \in ValidCsrfPairs, input \in CategoryInputs :
          CreateCategory(token, pair[1], pair[2], input)
    \/ \E token \in ProtectedCookies, pair \in ValidCsrfPairs, category_id \in CategoryIds :
          DeleteCategory(token, pair[1], pair[2], category_id)

SpecProtected == Init /\ [][NextProtected]_vars

\* The tokens of the sessions issued so far.
IssuedTokens == {handed[i].token : i \in 1..Len(handed)}
\* The ids a request may name: those of the rows there are, and one of no row.
AnyCategoryIds == {c.id : c \in categories} \cup {0}

\* _delete_category statement by statement. The connection is in sqlite3's
\* default mode: the two SELECTs run outside a transaction, the DELETE opens
\* one and the `with` block commits it, so the statements of other requests
\* can come between them.
\* Thread t is handed the request; authentication, CSRF, and
\* SELECT id, name FROM categories WHERE id = ? AND user_id = ?
DeleteCategorySelect(t, token, cookie_token, header_token, category_id) ==
    LET op == "delete_category"
        gate == Gate(token, cookie_token, header_token)
        user_id == CurrentUser(token, sessions, users, now)
        rows == OwnedRows(categories, category_id, user_id)
    IN  /\ pc[t] = "idle"
        /\ IF gate # "ok"
           THEN /\ resp' = Refusal(op, gate)
                /\ UNCHANGED threadVars
           ELSE IF rows = {}
           THEN /\ resp' = Response(op, 404, 0, NoToken, user_id)
                /\ UNCHANGED threadVars
           ELSE /\ pc' = [pc EXCEPT ![t] = "usage"]
                /\ req' = [req EXCEPT ![t] =
                              [category_id |-> category_id, user_id |-> user_id,
                               name |-> (CHOOSE c \in rows : TRUE).name]]
                /\ UNCHANGED <<cur, snap, resp>>
        /\ seen' = SeenAfterResolve(token)
        /\ UNCHANGED <<now, environ, users, sessions, handed, subscriptions, categories,
                       sqlite_sequence, login_rate_limits, entries, lock, ret, calls>>

\* SELECT COUNT(*) FROM subscriptions WHERE user_id = ? AND category = ?
\* COLLATE NOCASE, and the 409 when the count is not 0.
DeleteCategoryUsage(t) ==
    LET usage_count == Cardinality({r \in subscriptions :
                           /\ r.user_id = req[t].user_id
                           /\ NoCase(r.category) = NoCase(req[t].name)})
    IN  /\ pc[t] = "usage"
        /\ IF usage_count > 0
           THEN /\ resp' = Response("delete_category", 409, 0, NoToken, req[t].user_id)
                /\ Done(t)
           ELSE /\ pc' = [pc EXCEPT ![t] = "delete"]
                /\ UNCHANGED <<req, cur, snap, resp>>
        /\ UNCHANGED <<now, environ, dbVars, entries, lock, ret, calls>>

\* DELETE FROM categories WHERE id = ? AND user_id = ?, the commit, and the
\* response {"deleted": true}.
DeleteCategoryDelete(t) ==
    LET rows == OwnedRows(categories, req[t].category_id, req[t].user_id)
    IN  /\ pc[t] = "delete"
        /\ rows # {} =>
              sqlite_sequence.categories - Cardinality(categories) < MaxDeletedCategories
        /\ categories' = categories \ rows
        /\ resp' = Response("delete_category", 200, 0, NoToken, req[t].user_id)
        /\ Done(t)
        /\ UNCHANGED <<now, environ, users, sessions, handed, seen, subscriptions,
                       sqlite_sequence, login_rate_limits, entries, lock, ret, calls>>

\* One user whose requests to delete a category are served by two threads
\* while subscriptions are created and updated.
NextIntegrity ==
    \/ \E e \in {"ann@x.io"}, p \in {"pw-one"}, salt \in {0} : Signup(e, p, salt)
    \/ \E token \in IssuedTokens, pair \in ValidCsrfPairs, input \in {"Gaming"} :
          CreateCategory(token, pair[1], pair[2], input)
    \/ \E token \in IssuedTokens, pair \in ValidCsrfPairs :
          CreateSubscription(token, pair[1], pair[2], GoodBody("Gaming"))
    \/ \E token \in IssuedTokens, pair \in ValidCsrfPairs, sub_id \in SubscriptionIds :
          UpdateSubscription(token, pair[1], pair[2], sub_id, GoodBody("Music"))
    \/ \E token \in IssuedTokens, pair \in ValidCsrfPairs, sub_id \in SubscriptionIds :
          DeleteSubscription(token, pair[1], pair[2], sub_id)
    \/ \E t \in Threads, token \in IssuedTokens, pair \in ValidCsrfPairs,
          category_id \in AnyCategoryIds :
          DeleteCategorySelect(t, token, pair[1], pair[2], category_id)
    \/ \E t \in Threads : DeleteCategoryUsage(t)
    \/ \E t \in Threads : DeleteCategoryDelete(t)

SpecIntegrity == Init /\ [][NextIntegrity]_vars

\* Two users, each signed in, who read, create, update and delete
\* subscriptions and categories by id.
NextIsolation ==
    \/ \E e \in Emails, p \in {"pw-one"}, salt \in {0} : Signup(e, p, salt)
    \/ \E token \in IssuedTokens : GetSubscriptions(token)
    \/ \E token \in IssuedTokens : GetCategories(token)
    \/ \E token \in IssuedTokens : GetReminders(token)
    \/ \E token \in IssuedTokens, pair \in ValidCsrfPairs :
          CreateSubscription(token, pair[1], pair[2], GoodBody("Gaming"))
    \/ \E token \in IssuedTokens, pair \in ValidCsrfPairs, sub_id \in SubscriptionIds :
          UpdateSubscription(token, pair[1], pair[2], sub_id, GoodBody("Music"))
    \/ \E token \in IssuedTokens, pair \in ValidCsrfPairs, sub_id \in SubscriptionIds :
          DeleteSubscription(token, pair[1], pair[2], sub_id)
    \/ \E token \in IssuedTokens, pair \in ValidCsrfPairs, category_id \in AnyCategoryIds :
          DeleteCategory(token, pair[1], pair[2], category_id)

SpecIsolation == Init /\ [][NextIsolation]_vars

\* The CSRF cookie a request to GET /api/auth/me may carry.
MeCsrfCookies == {NoneStr, "", "csrf-1"}

\* Sessions resolved over time: signups, GET /api/auth/me and logouts with
\* every session cookie, on the clock of ticks.
NextResolve ==
    \/ Tick
    \/ \E e \in Emails, p \in {"pw-one"}, salt \in {0} : Signup(e, p, salt)
    \/ \E token \in CookieTokens, cookie_token \in MeCsrfCookies :
          GetAuthMe(token, cookie_token)
    \/ \E token \in CookieTokens, pair \in CsrfPairs : Logout(token, pair[1], pair[2])

SpecResolve == Init /\ [][NextResolve]_vars

\* ------------------------------------------------------------- _client_ip
\* The X-Forwarded-For header as its hops (split(",")): <<>> when the header
\* is absent or blank.
ForwardedFor == {<<>>, <<" 10.0.0.2", " 10.0.0.1">>}
\* self.client_address[0], the peer of the connection
ClientAddresses == {"10.0.0.1"}

\* str.strip() on a hop
Strip(hop) == IF hop = " 10.0.0.2" THEN "10.0.0.2"
              ELSE IF hop = " 10.0.0.1" THEN "10.0.0.1"
              ELSE hop

\* _client_ip: the first hop of X-Forwarded-For, else the peer's address.
ClientIp(forwarded_for, client_address) ==
    IF forwarded_for # <<>>
    THEN Strip(forwarded_for[1])
    ELSE client_address

\* Failed logins of one client after the other, from two network identities
\* against two emails.
NextSpread ==
    \/ TickSecond
    \/ \E forwarded_for \in ForwardedFor, client_address \in ClientAddresses,
          e \in Emails :
          LoginBegin("T1", ClientIp(forwarded_for, client_address), e, "pw-two")
    \/ LoginCheck("T1")
    \/ LoginVerify("T1")
    \/ LoginFailLock("T1")
    \/ LoginFailStore("T1")

SpecSpread == Init /\ [][NextSpread]_vars

\* ---------------------------------------------- add_months, next_due_date
\* datetime.MAXYEAR: date.replace raises ValueError for a year beyond it.
MAXYEAR == 9999
\* How many years `today` lies after the initial date, at most.
MaxYearsAhead == 1

Date(year, month, day) == [year |-> year, month |-> month, day |-> day]

IsLeap(year) == year % 4 = 0 /\ (year % 100 # 0 \/ year % 400 = 0)

\* calendar.monthrange(year, month)[1]
MonthRange(year, month) ==
    CASE month = 2 -> IF IsLeap(year) THEN 29 ELSE 28
      [] month \in {4, 6, 9, 11} -> 30
      [] OTHER -> 31

\* (variant: a date is also before itself)
DateLess_OrEqual(a, b) ==
    \/ a.year < b.year
    \/ a.year = b.year /\ a.month < b.month
    \/ a.year = b.year /\ a.month = b.month /\ a.day <= b.day

\* a < b on two dates
DateLess(a, b) ==
    \/ a.year < b.year
    \/ a.year = b.year /\ a.month < b.month
    \/ a.year = b.year /\ a.month = b.month /\ a.day < b.day

\* add_months up to the call of replace: the target year and month, and the
\* day cut to the target month's length.
TargetDate(source_date, months) ==
    LET month_index == source_date.month - 1 + months
        target_year == source_date.year + (month_index \div 12)
        target_month == (month_index % 12) + 1
        max_day == MonthRange(target_year, target_month)
    IN  Date(target_year, target_month,
             IF source_date.day <= max_day THEN source_date.day ELSE max_day)

\* add_months: source_date.replace(...) raises ValueError beyond MAXYEAR.
AddMonths(source_date, months) ==
    IF TargetDate(source_date, months).year > MAXYEAR
    THEN Raises
    ELSE Returns(TargetDate(source_date, months))

\* The loop of next_due_date: while current_due < today, add the months.
RECURSIVE DueLoop(_, _, _)
DueLoop(current_due, months, today) ==
    IF DateLess(current_due, today)
    THEN LET next == AddMonths(current_due, months)
         IN  IF next.raises THEN Raises ELSE DueLoop(next.value, months, today)
    ELSE Returns(current_due)

\* next_due_date(initial_date, billing_cycle, today)
NextDueDate(initial_date, billing_cycle, today) ==
    DueLoop(initial_date, CYCLE_TO_MONTHS[billing_cycle], today)

\* The dates the calls are made with: a leap year, the year after it and the
\* last year of the calendar; the first and last months of a year and
\* February; first, middle and last days.
DueYears == {2024, 2025, MAXYEAR}
DueMonths == {1, 2, 12}
DueDays == {1, 15, 29, 31}
Dates ==
    UNION {{Date(y, m, d) : d \in {x \in DueDays : x <= MonthRange(y, m)}} :
              y \in DueYears, m \in DueMonths}
BillingCycles == DOMAIN CYCLE_TO_MONTHS

\* next_due_date called directly, as the unit test calls it.
ApiNextDueDate(initial_date, billing_cycle, today) ==
    /\ today.year <= initial_date.year + MaxYearsAhead
    /\ ret' = [op |-> "next_due_date", key |-> <<initial_date, billing_cycle, today>>,
               at |-> now, limited |-> FALSE,
               value |-> NextDueDate(initial_date, billing_cycle, today)]
    /\ UNCHANGED <<now, environ, dbVars, entries, lock, threadVars, resp, calls>>

NextDue ==
    \/ \E initial_date \in Dates, billing_cycle \in BillingCycles, today \in Dates :
          ApiNextDueDate(initial_date, billing_cycle, today)

SpecDue == Init /\ [][NextDue]_vars

\* ------------------------------------------------------ parse_auth_payload
\* The strings of a signup body, character by character.
Whitespace == {" ", "\t"}

\* str.lower(), per character
LowerChar(c) ==
    CASE c = "A" -> "a"
      [] c = "B" -> "b"
      [] c = "X" -> "x"
      [] OTHER -> c

\* (variant: the letters are left as sent)
LowerChars_AsSent(text) == text

\* str.lower()
LowerChars(text) == [i \in 1..Len(text) |-> LowerChar(text[i])]

RECURSIVE LStrip(_)
LStrip(text) ==
    IF text # <<>> /\ Head(text) \in Whitespace THEN LStrip(Tail(text)) ELSE text

RECURSIVE RStrip(_)
RStrip(text) ==
    IF text # <<>> /\ text[Len(text)] \in Whitespace
    THEN RStrip(SubSeq(text, 1, Len(text) - 1))
    ELSE text

\* str.strip()
StripChars(text) == RStrip(LStrip(text))

\* c in text
Contains(text, c) == \E i \in 1..Len(text) : text[i] = c

\* parse_auth_payload(body, require_name)
ParseAuthPayload(body, require_name) ==
    LET name == StripChars(body.name)
        email == LowerChars(StripChars(body.email))
        password == body.password
        payload == [name |-> name, email |-> email, password |-> password]
    IN  IF require_name /\ Len(name) < 2
        THEN [payload |-> payload, error |-> "Name must be at least 2 characters"]
        ELSE IF ~Contains(email, "@") \/ ~Contains(email, ".")
        THEN [payload |-> payload, error |-> "A valid email is required"]
        ELSE IF Len(password) < 8
        THEN [payload |-> payload, error |-> "Password must be at least 8 characters"]
        ELSE [payload |-> payload, error |-> ""]

\* POST /api/auth/signup with the JSON body `body`: 400 for a payload that does
\* not parse, else the signup of the normalised email.
AuthSignup(body, salt) ==
    LET parsed == ParseAuthPayload(body, TRUE)
    IN  IF parsed.error # ""
        THEN /\ resp' = WithBody(Response("signup", 400, 0, NoToken, None), parsed.error)
             /\ UNCHANGED <<now, environ, dbVars, entries, lock, threadVars, ret, calls>>
        ELSE Signup(parsed.payload.email, parsed.payload.password, salt)

\* The signup bodies sent: emails in several spellings, a name and a password
\* that are too short.
SentEmails ==
    {<<"a", "@", "x", ".", "i">>, <<"A", "@", "X", ".", "i">>,
     <<" ", "a", "@", "x", ".", "i", "\t">>, <<" ", "B", "@", "x", ".", "i">>,
     <<"b", "@", "x", ".", "i">>, <<"a", "x", ".", "i">>, <<" ">>}
SentNames == {<<"A", "n">>, <<" ", "A", " ">>}
SentPasswords == {<<"p", "a", "s", "s", "w", "o", "r", "d">>, <<"p", "w">>}
SignupBodies ==
    {[name |-> n, email |-> e, password |-> p] :
        n \in SentNames, e \in SentEmails, p \in SentPasswords}

\* Signups with every body, over time.
NextNormalize ==
    \/ TickSecond
    \/ \E body \in SignupBodies, salt \in {0} : AuthSignup(body, salt)

SpecNormalize == Init /\ [][NextNormalize]_vars

\* Failed logins of one client after the other, for an account that signs up
\* (a wrong password) and for an email that never does.
NextUniform ==
    \/ TickSecond
    \/ \E salt \in {0} : Signup("ann@x.io", "pw-one", salt)
    \/ \E ip \in Ips, e \in Emails : LoginBegin("T1", ip, e, "pw-two")
    \/ LoginCheck("T1")
    \/ LoginVerify("T1")
    \/ LoginFailLock("T1")
    \/ LoginFailStore("T1")

SpecUniform == Init /\ [][NextUniform]_vars

\* Sessions: signups, the logins of one account one at a time, logouts.
NextSession ==
    \/ TickSecond
    \/ \E e \in Emails, p \in {"pw-one"}, salt \in {0} : Signup(e, p, salt)
    \/ LoginSteps({"T1"}, {"ann@x.io"}, Passwords)
    \/ \E token \in CookieTokens, pair \in CsrfPairs : Logout(token, pair[1], pair[2])

SpecSession == Init /\ [][NextSession]_vars

\* Concurrent failed logins for one account.
NextFailures ==
    \/ Tick
    \/ \E t \in Threads, ip \in Ips : LoginBegin(t, ip, "ann@x.io", "pw-two")
    \/ \E t \in Threads : LoginCheck(t)
    \/ \E t \in Threads : LoginVerify(t)
    \/ \E t \in Threads : LoginFailLock(t)
    \/ \E t \in Threads : LoginFailStore(t)

SpecFailures == Init /\ [][NextFailures]_vars

\* Concurrent logins for one account that signs up, right and wrong passwords.
Next ==
    \/ TickSecond
    \/ \E p \in {"pw-one"}, salt \in {0} : Signup("ann@x.io", p, salt)
    \/ LoginSteps(Threads, {"ann@x.io"}, Passwords)

Spec == Init /\ [][Next]_vars

\* ================================================================= claims
Last(s) == s[Len(s)]

\* The direct call just made was register_failure for `key`, it was the n-th
\* failure since the key's count was reset by `origin`, and none of the n was
\* pruned: all n lie within one attempt window.
NthFailureInWindow(key, n, origin) ==
    /\ ret.op = "register_failure"
    /\ ret.key = key
    /\ calls[key].n = n
    /\ calls[key].origin = origin
    /\ key \in DOMAIN entries
    /\ Len(entries[key].attempts) = n
    /\ Last(entries[key].attempts) - entries[key].attempts[1] <= attempt_window

\* C4: for a key with no prior entry, register_failure calls within one
\* attempt window return 0 on each of the first max_attempts - 1 calls and the
\* lockout duration in seconds (> 0) on call number max_attempts, which sets
\* locked_until = the time of that call + the lockout duration.
C4_LockoutOnNthFailure ==
    \A key \in Keys : \A n \in 1..max_attempts :
        NthFailureInWindow(key, n, "fresh") =>
            IF n < max_attempts
            THEN /\ ret.value = 0
                 /\ entries[key].locked_until = None
            ELSE /\ ret.value = lockout_duration_seconds
                 /\ ret.value > 0
                 /\ entries[key].locked_until = ret.at + lockout_duration

C4_Witness ==
    \E key \in Keys :
        /\ NthFailureInWindow(key, max_attempts, "fresh")
        /\ ret.value > 0
        /\ entries[key].locked_until = ret.at + lockout_duration

\* C5: is_limited reports limited with retryAfter = max(1, whole seconds left)
\* exactly when the key's entry has locked_until strictly later than now, and
\* not limited in every other case.
C5_LimitedIffLockedInFuture ==
    [][\A key \in ApiKeys :
         ApiIsLimited(key) =>
            IF key \in DOMAIN entries /\ entries[key].locked_until > now
            THEN LET left == entries[key].locked_until - now
                     seconds == left \div TicksPerSecond
                 IN  /\ ret'.limited
                     /\ ret'.value = IF seconds >= 1 THEN seconds ELSE 1
            ELSE /\ ~ret'.limited
                 /\ ret'.value = 0]_vars

\* A check that found less than a whole second of lockout left.
C5_Witness ==
    \E key \in Keys :
        /\ ret.op = "is_limited"
        /\ ret.key = key
        /\ ret.limited
        /\ ret.value = 1
        /\ key \in DOMAIN entries
        /\ entries[key].locked_until - ret.at < TicksPerSecond

\* C6: once a lockout has elapsed, the next check of the key reports not
\* limited and resets its failures to zero, so that max_attempts - 1 further
\* failures after that check trigger no new lockout.
C6_CheckAfterLockoutResets ==
    /\ [][\A key \in ApiKeys :
            (ApiIsLimited(key) /\ LockoutElapsed(entries, key, now)) =>
                /\ ~ret'.limited
                /\ entries'[key].attempts = <<>>
                /\ entries'[key].locked_until = None]_vars
    /\ [](\A key \in Keys :
            (/\ ret.op = "register_failure"
             /\ ret.key = key
             /\ calls[key].origin = "elapsed"
             /\ calls[key].n < max_attempts) =>
                /\ ret.value = 0
                /\ entries[key].locked_until = None)

\* max_attempts - 1 failures registered after the check that followed an
\* elapsed lockout.
C6_Witness ==
    \E key \in Keys :
        /\ ret.op = "register_failure"
        /\ ret.key = key
        /\ calls[key].origin = "elapsed"
        /\ calls[key].n = max_attempts - 1
        /\ Len(entries[key].attempts) = max_attempts - 1
        /\ ret.value = 0

\* C7: rate-limit state is durable: what was recorded for a key before the
\* server process restarts is there after it, so a check before the lockout
\* expiry still reports the key limited and the earlier in-window failures
\* still count.
C7_LimiterStateSurvivesRestart ==
    [][Restart =>
         \A key \in DOMAIN entries :
            /\ IsLimited(entries, key, now).limited =>
                 (key \in DOMAIN entries' /\ IsLimited(entries', key, now).limited)
            /\ PruneAttempts(entries[key].attempts, now) # <<>> =>
                 (/\ key \in DOMAIN entries'
                  /\ PruneAttempts(entries'[key].attempts, now)
                        = PruneAttempts(entries[key].attempts, now))]_vars

\* ------------------------------------------------------------- sessions
\* The user a handed-out token resolves to now.
Resolves(token) == CurrentUser(token, sessions, users, now)

\* C1: after issue_session ran twice for a user, the token of the first call
\* no longer resolves, and the token of the second call resolves to the user
\* (as long as its own row is there and not expired).
C1_SecondIssueInvalidatesFirst ==
    \A i \in 1..Len(handed) : \A j \in 1..Len(handed) :
        (i < j /\ handed[i].user_id = handed[j].user_id) =>
            /\ Resolves(handed[i].token) = None
            /\ (\E s \in sessions : /\ s.token_hash = HashSessionToken(handed[j].token)
                                    /\ s.expires_at > UtcNowIso(now))
                 => Resolves(handed[j].token) = handed[j].user_id

\* C2: the sessions table holds at most one row per user.
C2_OneSessionRowPerUser ==
    \A s1 \in sessions : \A s2 \in sessions :
        s1.user_id = s2.user_id => s1 = s2

\* C3: every session row stores hash_session_token of the token that was
\* handed to the caller for it, and no raw token is stored in the table.
C3_OnlyTokenHashStored ==
    /\ \A s \in sessions :
          /\ s.id \in 1..Len(handed)
          /\ s.token_hash = HashSessionToken(handed[s.id].token)
          /\ s.user_id = handed[s.id].user_id
    /\ \A s \in sessions : \A i \in 1..Len(handed) :
          s.token_hash # handed[i].token

C3_Witness ==
    /\ Len(handed) = MaxTokens
    /\ Cardinality(sessions) = MaxTokens

\* ---------------------------------------------------- concurrent failures
\* C8: failures registered concurrently for one key are all counted: each
\* register_failure adds exactly one to the failures stored for the key within
\* the window, whatever the other threads did since it was called, and sets the
\* lockout when the count reaches max_attempts.
C8_NoLostFailure ==
    [][\A t \in Threads :
         LoginFailStore(t) =>
            LET key == ReqKey(t)
                before == IF key \in DOMAIN entries THEN entries[key].attempts ELSE <<>>
                after == entries'[key].attempts
            IN  /\ after = Append(PruneAttempts(before, cur[t]), cur[t])
                /\ Len(after) >= max_attempts =>
                      entries'[key].locked_until = cur[t] + lockout_duration]_vars

\* Two failures of one key in flight together, the two that reach the threshold.
C8_Witness ==
    \E t1 \in Threads : \E t2 \in Threads \ {t1} :
        /\ pc[t1] = "locked"
        /\ pc[t2] = "fail"
        /\ ReqKey(t1) = ReqKey(t2)
        /\ Len(snap[t1].attempts) = max_attempts - 2
        /\ cur[t2] - cur[t1] <= attempt_window

\* C9: from the moment a lockout is set until locked_until, no login for the
\* key gets through, and the lockout is neither removed nor shortened.
C9_LockoutDominates ==
    [][\A key \in DOMAIN entries :
         entries[key].locked_until > now =>
            /\ key \in DOMAIN entries'
            /\ entries'[key].locked_until >= entries[key].locked_until
            /\ \A t \in Threads : ReqKey(t) = key => ~LoginSucceed(t)]_vars

\* C10: clear(key) removes the key's entry and nothing else: the next check
\* of the key reports not limited, the next failure is the first of a new
\* window, and clearing a key that has no entry changes nothing.
C10_ClearRemovesOnlyTheKey ==
    [][\A key \in Keys :
         ApiClear(key) =>
            /\ DOMAIN entries' = DOMAIN entries \ {key}
            /\ \A k \in DOMAIN entries' : entries'[k] = entries[k]
            /\ key \notin DOMAIN entries => entries' = entries
            /\ IsLimited(entries', key, now) =
                  [limited |-> FALSE, retry_after |-> 0, entries |-> entries']
            /\ RegisterFailure(entries', key, now).entries[key].attempts = <<now>>]_vars

\* A locked key was cleared while another key keeps its failures.
C10_Witness ==
    /\ ret.op = "clear"
    /\ ret.key \notin DOMAIN entries
    /\ calls[ret.key] = NoCalls
    /\ \E k \in DOMAIN entries : entries[k].locked_until > now

\* ------------------------------------------------------------------- CSRF
\* Both tokens are present, non-empty and equal.
PresentAndEqual(cookie_token, header_token) ==
    /\ cookie_token \notin {NoneStr, ""}
    /\ header_token \notin {NoneStr, ""}
    /\ cookie_token = header_token

\* C13: is_valid_csrf_pair(cookie, header) returns true if and only if both
\* arguments are present, non-empty and equal, and returns false in every
\* other case.
C13_ValidIffPresentAndEqual ==
    ret.op = "is_valid_csrf_pair" =>
        /\ ~ret.value.raises
        /\ ret.value.value = PresentAndEqual(ret.key[1], ret.key[2])

\* A state-changing request of `token` with the CSRF pair `pair`.
MutationBy(token, pair) ==
    \/ \E body \in SubscriptionBodies : CreateSubscription(token, pair[1], pair[2], body)
    \/ \E body \in SubscriptionBodies, sub_id \in SubscriptionIds :
          UpdateSubscription(token, pair[1], pair[2], sub_id, body)
    \/ \E sub_id \in SubscriptionIds : DeleteSubscription(token, pair[1], pair[2], sub_id)
    \/ \E input \in CategoryInputs : CreateCategory(token, pair[1], pair[2], input)
    \/ \E category_id \in CategoryIds : DeleteCategory(token, pair[1], pair[2], category_id)
    \/ Logout(token, pair[1], pair[2])

\* C14: a state-changing request of an authenticated caller (create, update,
\* delete subscription, create, delete category, logout with a session cookie)
\* whose CSRF cookie and header are not a valid pair is answered 403 and
\* leaves subscriptions, categories and sessions unchanged.
C14_InvalidCsrfPairAnswered403 ==
    [][\A token \in CookieTokens : \A pair \in CsrfPairs :
         (/\ CurrentUser(token, sessions, users, now) # None
          /\ ~PresentAndEqual(pair[1], pair[2])
          /\ MutationBy(token, pair)) =>
            /\ resp'.status = 403
            /\ UNCHANGED <<subscriptions, categories, sessions>>]_vars

\* The response sets a new CSRF cookie that scripts can read.
SetsCsrfCookie(response) ==
    \E i \in 1..Len(response.extra_headers) :
        LET header == response.extra_headers[i]
        IN  /\ header.name = CSRF_COOKIE_NAME
            /\ header.max_age > 0
            /\ header.value \in FreshCsrfTokens
            /\ ~header.http_only

\* C15 (as claimed): every request that carries no CSRF cookie, authenticated
\* or not, is answered with a new CSRF cookie that is not HttpOnly.
C15_EveryRequestWithoutCsrfCookieGetsOne ==
    [][\A token \in CookieTokens : \A cookie_token \in {NoneStr, ""} :
         GetAuthMe(token, cookie_token) => SetsCsrfCookie(resp')]_vars

\* C15 (amended): GET /api/auth/me answers with a new CSRF cookie that is not
\* HttpOnly exactly when the session cookie resolves to a user and the request
\* carries no CSRF cookie; a request without a valid session is sent none.
C15_AuthenticatedMeWithoutCsrfCookieGetsOne ==
    [][\A token \in CookieTokens : \A cookie_token \in MeCsrfCookies :
         GetAuthMe(token, cookie_token) =>
            (SetsCsrfCookie(resp') <=>
                (/\ \E i \in 1..Len(handed) :
                       /\ handed[i].token = token
                       /\ \E s \in sessions : s.id = i /\ s.expires_at * TicksPerSecond > now
                 /\ cookie_token \in {NoneStr, ""}))]_vars

\* An authenticated caller without a CSRF cookie was sent one.
C15_Witness ==
    /\ resp.op = "me"
    /\ resp.user # None
    /\ SetsCsrfCookie(resp)

\* ------------------------------------------------------ session resolution
\* The rows of the token's hash whose absolute expiry is strictly later than
\* the clock (expires_at is in whole seconds, the clock in ticks).
LiveRows(token) ==
    {s \in sessions : /\ s.token_hash = HashSessionToken(token)
                       /\ s.expires_at * TicksPerSecond > now}

\* C16: a session cookie resolves to a user only when its hash matches a stored
\* row whose absolute expiry is strictly later than now, and then to that
\* row's user; a token whose row expired at or before now, or that matches no
\* row, resolves to none.
C16_ResolvesOnlyLiveSessions ==
    [][\A token \in CookieTokens : \A cookie_token \in MeCsrfCookies :
         GetAuthMe(token, cookie_token) =>
            IF token # NoToken /\ LiveRows(token) # {}
            THEN \E s \in LiveRows(token) : resp'.user = s.user_id
            ELSE resp'.user = None]_vars

\* A token was refused in the very second its session expires, after it had
\* resolved within the second before.
C16_Witness ==
    /\ resp.op = "me"
    /\ resp.user = None
    /\ \E s \in sessions : /\ s.token_hash = HashSessionToken(resp.token)
                            /\ s.expires_at * TicksPerSecond = now
                            /\ seen[s.id] > s.created_at * TicksPerSecond

\* C17: with a non-zero idle timeout, a session last seen (issued or resolved)
\* more than the timeout ago does not resolve, although its absolute expiry
\* is still in the future.
C17_IdleSessionDoesNotResolve ==
    \A i \in 1..Len(handed) :
        (/\ session_idle_timeout_seconds # 0
         /\ now - seen[i] > session_idle_timeout_seconds * TicksPerSecond) =>
            Resolves(handed[i].token) = None

\* C18: every session row carries a last-seen timestamp: the time of issuance,
\* then the time of the last successful resolve, never an earlier one.
C18_RowsCarryLastSeen ==
    \A s \in sessions :
        /\ "last_seen_at" \in DOMAIN s
        /\ s.last_seen_at = UtcNowIso(seen[s.id])
        /\ s.last_seen_at >= s.created_at

\* C19: revoking is idempotent: a logout that passes the CSRF check is
\* answered 200 whether or not a session row matches the token, it changes
\* nothing when no row matches, and a second logout with the same token would
\* leave the sessions as the first one left them.
C19_LogoutIdempotent ==
    [][\A token \in CookieTokens : \A pair \in CsrfPairs :
         (/\ token = NoToken \/ PresentAndEqual(pair[1], pair[2])
          /\ Logout(token, pair[1], pair[2])) =>
            /\ resp'.status = 200
            /\ (\A s \in sessions : s.token_hash # HashSessionToken(token))
                  => sessions' = sessions
            /\ \A s \in sessions' : s.token_hash # HashSessionToken(token)
            /\ \A s \in sessions :
                  s.token_hash # HashSessionToken(token) => s \in sessions']_vars

\* A logout whose token matches no session row was answered 200, the rows of
\* the other sessions being there, and a handed-out token has been revoked.
C19_Witness ==
    /\ resp.op = "logout"
    /\ resp.status = 200
    /\ resp.token # NoToken
    /\ \A s \in sessions : s.token_hash # HashSessionToken(resp.token)
    /\ sessions # {}
    /\ \E i \in 1..Len(handed) : \A s \in sessions : s.id # i

\* The user the token resolves to in the next state.
ResolvesNext(token) == CurrentUser(token, sessions', users', now')

Swept == DOMAIN login_rate_limits \ DOMAIN login_rate_limits'

\* The retention horizon of the sweep, in whole seconds.
Horizon(retention) == UtcNowIso(now) - retention

ClientIps == {ClientIp(forwarded_for, client_address) :
                 forwarded_for \in ForwardedFor, client_address \in ClientAddresses}

\* The failures of the pair (ip, email) that lie within the window at time t.
InWindow(ip, email, t) ==
    IF <<ip, email>> \in DOMAIN entries
    THEN Cardinality({i \in 1..Len(entries[<<ip, email>>].attempts) :
                         t - entries[<<ip, email>>].attempts[i] <= attempt_window})
    ELSE 0

\* The pair (ip, email) is locked out now.
LockedOut(ip, email) ==
    /\ <<ip, email>> \in DOMAIN entries
    /\ entries[<<ip, email>>].locked_until # None
    /\ entries[<<ip, email>>].locked_until > now

RECURSIVE SumInWindow(_, _)
SumInWindow(pairs, t) ==
    IF pairs = {}
    THEN 0
    ELSE LET pair == CHOOSE x \in pairs : TRUE
         IN  InWindow(pair[1], pair[2], t) + SumInWindow(pairs \ {pair}, t)

\* C12 (as claimed): max_attempts failures within the window from one client
\* network identity, whatever the emails, produce a lockout, and so do
\* max_attempts failures within the window against one email, whatever the
\* identities.
C12_FailuresAccumulateAcrossKeys ==
    /\ \A ip \in ClientIps :
          SumInWindow({<<ip, e>> : e \in Emails}, now) >= max_attempts
             => \E e \in Emails : LockedOut(ip, e)
    /\ \A e \in Emails :
          SumInWindow({<<ip, e>> : ip \in ClientIps}, now) >= max_attempts
             => \E ip \in ClientIps : LockedOut(ip, e)

\* C12 (amended): failed logins accumulate per pair of client network identity
\* and email: max_attempts failures of one pair within the window produce a
\* lockout of that pair, a failed login is answered 429 exactly when it is
\* the pair's max_attempts-th failure within the window, and it changes the
\* count and the lockout of no other pair.
C12_FailuresAccumulatePerPair ==
    /\ [](\A ip \in ClientIps : \A e \in Emails :
            InWindow(ip, e, now) >= max_attempts => LockedOut(ip, e))
    /\ [][LoginFailStore("T1") =>
            /\ resp'.status = 429
                  <=> InWindow(req["T1"].ip, req["T1"].email, cur["T1"]) + 1 >= max_attempts
            /\ resp'.status \in {401, 429}
            /\ \A key \in DOMAIN entries' :
                  key # <<req["T1"].ip, req["T1"].email>> =>
                     /\ key \in DOMAIN entries
                     /\ entries'[key] = entries[key]]_vars

\* One pair is locked out while max_attempts failures from the same identity
\* and max_attempts failures against the same email lie within the window
\* without a lockout of the other pairs.
C12_Witness ==
    \E ip \in ClientIps : \E e \in Emails :
        /\ LockedOut(ip, e)
        /\ resp.status = 429
        /\ \E other \in Emails \ {e} :
              /\ InWindow(ip, other, now) > 0
              /\ ~LockedOut(ip, other)
        /\ \E other \in ClientIps \ {ip} :
              /\ InWindow(other, e, now) > 0
              /\ ~LockedOut(other, e)

\* ----------------------------------------------------------- cookie headers
\* The settings that ask for Secure: the override spelled as a truthy value,
\* or the production posture.
SecureAskedFor ==
    \/ environ.COOKIE_SECURE \in {"1", " TRUE "}
    \/ environ.ENV \in {"production", "Production "}

\* C29: build_cookie_header includes HttpOnly exactly when http_only is true
\* (the session cookie's headers have it, the CSRF cookie's do not), Secure
\* exactly when the COOKIE_SECURE override is truthy or ENV is production,
\* and always Path=/, a SameSite of Lax, Strict or None, and the Max-Age given.
C29_HttpOnlyAndSecureAsAsked ==
    /\ [][\A name \in {SESSION_COOKIE_NAME, CSRF_COOKIE_NAME} : \A value \in {"", "value"} :
          \A max_age \in {0, session_duration_seconds} : \A http_only \in BOOLEAN :
             ApiBuildCookieHeader(name, value, max_age, http_only) =>
                /\ ret'.value.http_only = http_only
                /\ ret'.value.secure = SecureAskedFor
                /\ ret'.value.path = "/"
                /\ ret'.value.samesite \in {"Lax", "Strict", "None"}
                /\ ret'.value.max_age = max_age
                /\ ret'.value.name = name]_vars
    /\ [](/\ SessionCookieHeader(Token(1)).http_only
          /\ ClearSessionCookieHeader.http_only
          /\ ~CsrfCookieHeader("csrf-1").http_only
          /\ ~ClearCsrfCookieHeader.http_only
          /\ SessionCookieHeader(Token(1)).secure = SecureAskedFor
          /\ CsrfCookieHeader("csrf-1").secure = SecureAskedFor)

\* A header without HttpOnly was built Secure by the production posture alone,
\* the override saying no.
C29_Witness ==
    /\ ret.op = "build_cookie_header"
    /\ environ.COOKIE_SECURE = "0"
    /\ environ.ENV = "Production "
    /\ ret.value.secure
    /\ ~ret.value.http_only
    /\ ret.value.samesite = "Strict"

\* C30: no cookie header is built with SameSite=None without Secure.
C30_SameSiteNoneImpliesSecure ==
    ret.op = "build_cookie_header" =>
        (ret.value.samesite = "None" => ret.value.secure)

\* --------------------------------------------------------- session duration
\* int(os.environ["SESSION_DURATION_DAYS"]), in the model's seconds
ConfiguredDuration == IF environ.SESSION_DURATION_DAYS = "3" THEN 3 ELSE 0

\* The duration the claim gives a session issued under the present settings:
\* the configured one when set, else the production one under ENV=production,
\* else the default.
SessionDurationPolicy ==
    IF environ.SESSION_DURATION_DAYS # Unset
    THEN ConfiguredDuration
    ELSE IF environ.ENV = "production"
         THEN production_session_duration_seconds
         ELSE session_duration_seconds

\* C21: issue_session stores absolute expiry = now + D, where D is the default
\* duration, the shorter one under the production posture, and the explicitly
\* configured one when one is set.
C21_ExpiryFollowsDurationPolicy ==
    [][\A s \in sessions' \ sessions :
         s.expires_at = UtcNowIso(now) + SessionDurationPolicy]_vars

Malformed(encoded) ==
    \/ Len(encoded) = 1
    \/ \E i \in 1..Len(encoded) : encoded[i] = NotHex
    \/ Len(encoded) > 2

\* C23: verify_password returns false on every malformed stored encoding and
\* raises no exception to its caller.
C23_MalformedEncodingFailsClosed ==
    (ret.op = "verify_password" /\ Malformed(ret.key[2])) =>
        /\ ~ret.value.raises
        /\ ret.value.value = FALSE

\* ------------------------------------------------------------ failed logins
\* The answers of a failed login, as the client sees them.
InvalidCredentials ==
    [op |-> "login", status |-> 401, retry_after |-> 0, token |-> NoToken,
     user |-> None, extra_headers |-> <<>>, error |-> "",
     body |-> "Invalid email or password", rows |-> {}]

TooManyAttempts(retry_after) ==
    [InvalidCredentials EXCEPT !.status = 429, !.retry_after = retry_after,
                               !.body = "Too many login attempts. Try again later."]

C25_RetryAfterIsPositive ==
    /\ [](resp.op = "login" /\ resp.status = 429 => resp.retry_after \in Nat \ {0})
    /\ [][\A t \in Threads :
             /\ LoginCheck(t) /\ pc'[t] = "idle" =>
                   resp' = TooManyAttempts(resp'.retry_after)
             /\ LoginFailStore(t) /\ entries'[ReqKey(t)].locked_until = cur[t] + lockout_duration =>
                   resp' = TooManyAttempts(resp'.retry_after)]_vars

\* The gate answered 429 with a Retry-After of one second (the failure that
\* sets a lockout announces the whole lockout), and the lockout has less than
\* a second to run.
C25_Witness ==
    /\ resp = TooManyAttempts(1)
    /\ 1 < WholeSeconds(lockout_duration)
    /\ \E key \in DOMAIN entries :
          /\ entries[key].locked_until > now
          /\ entries[key].locked_until - now < TicksPerSecond

\* ------------------------------------------------------ protected endpoints
\* A request to a protected endpoint, read or write, with the session cookie
\* `token` and a valid CSRF pair.
ProtectedRequest(token) ==
    \/ GetSubscriptions(token)
    \/ GetCategories(token)
    \/ GetReminders(token)
    \/ \E pair \in ValidCsrfPairs :
          \/ \E body \in SubscriptionBodies :
                \/ CreateSubscription(token, pair[1], pair[2], body)
                \/ \E sub_id \in SubscriptionIds :
                      UpdateSubscription(token, pair[1], pair[2], sub_id, body)
          \/ \E sub_id \in SubscriptionIds :
                DeleteSubscription(token, pair[1], pair[2], sub_id)
          \/ \E input \in CategoryInputs : CreateCategory(token, pair[1], pair[2], input)
          \/ \E category_id \in CategoryIds :
                DeleteCategory(token, pair[1], pair[2], category_id)

\* No session cookie comes with the request, or one that resolves to no user.
NoSession(token) ==
    \/ token = UnparsableCookie
    \/ CurrentUser(token, sessions, users, now) = None

\* C26: a request to a protected endpoint whose session cookie is missing,
\* unknown or expired is answered 401 and changes nothing in the store; no
\* exception leaves the handler.
C26_NoSessionIsAnswered401 ==
    [][\A token \in ProtectedCookies :
          NoSession(token) /\ ProtectedRequest(token) =>
              /\ resp'.status = 401
              /\ resp'.error = ""
              /\ UNCHANGED <<users, sessions, storeVars>>]_vars

\* ------------------------------------------------------------------- signup
\* C27: a signup with an email that already belongs to a user is answered 409
\* and adds no user row, no session row and no category row; the sessions
\* that resolved before still resolve to the same users.
C27_DuplicateSignupChangesNothing ==
    [][\A e \in Emails :
          /\ \E u \in users : u.email = e
          /\ \E p \in Passwords, salt \in Salts : Signup(e, p, salt)
          => /\ resp'.status = 409
             /\ UNCHANGED <<users, sessions, subscriptions, categories, sqlite_sequence>>
             /\ \A token \in CookieTokens :
                   CurrentUser(token, sessions', users', now')
                     = CurrentUser(token, sessions, users, now)]_vars

\* A signup was refused as a duplicate while a session of a user resolves.
C27_Witness ==
    /\ resp.op = "signup"
    /\ resp.status = 409
    /\ \E i \in 1..Len(handed) :
          CurrentUser(handed[i].token, sessions, users, now) = handed[i].user_id

\* No blank at either end and no capital letter.
TrimmedLowercase(email) ==
    /\ email # <<>>
    /\ email[1] \notin Whitespace
    /\ email[Len(email)] \notin Whitespace
    /\ \A i \in 1..Len(email) : email[i] \notin {"A", "B", "X"}

\* The same letter, in either case.
SameLetter(c, d) ==
    \/ c = d
    \/ {c, d} \in {{"a", "A"}, {"b", "B"}, {"x", "X"}}

\* `sent` is `stored` up to letter case and surrounding whitespace.
DiffersOnlyInCaseOrBlanks(sent, stored) ==
    \E k \in 0..Len(sent) :
        /\ k + Len(stored) <= Len(sent)
        /\ \A i \in 1..Len(sent) :
              IF i > k /\ i <= k + Len(stored)
              THEN SameLetter(sent[i], stored[i - k])
              ELSE sent[i] \in Whitespace

\* C28: stored user emails are trimmed and lowercase and no two user rows
\* share an email; a signup stores the email it was sent up to case and
\* surrounding whitespace, and one whose email differs from a stored email
\* only in these is refused.
C28_EmailsNormalizedAndUnique ==
    /\ [](\A u \in users :
            /\ TrimmedLowercase(u.email)
            /\ \A v \in users : v.email = u.email => v = u)
    /\ [][\A body \in SignupBodies :
             (\E salt \in Salts : AuthSignup(body, salt)) =>
                 /\ \A u \in users' \ users : DiffersOnlyInCaseOrBlanks(body.email, u.email)
                 /\ (\E u \in users : DiffersOnlyInCaseOrBlanks(body.email, u.email))
                       => users' = users /\ resp'.status \in {400, 409}]_vars

\* Two users are stored, and the last signup was refused as a duplicate.
C28_Witness ==
    /\ Cardinality(users) = 2
    /\ \E u \in users : u.email = <<"b", "@", "x", ".", "i">>
    /\ resp.op = "signup"
    /\ resp.status = 409

\* ------------------------------------------------------------ next_due_date
\* The day number of a date, for comparing two dates.
Ordinal(d) == (d.year * 12 + (d.month - 1)) * 31 + (d.day - 1)

\* The date reached from `initial` by adding `months` k times, on a calendar
\* without a last year.
RECURSIVE Reached(_, _, _)
Reached(initial, months, k) ==
    IF k = 0 THEN initial ELSE TargetDate(Reached(initial, months, k - 1), months)

\* The number of additions after which the date is on or after `today`.
MaxAdditions == 12 * (MaxYearsAhead + 1)
FirstOnOrAfter(initial, months, today) ==
    CHOOSE k \in 0..MaxAdditions :
        /\ Ordinal(Reached(initial, months, k)) >= Ordinal(today)
        /\ \A j \in 0..(k - 1) : Ordinal(Reached(initial, months, j)) < Ordinal(today)

\* C31 as stated: next_due_date returns, for every initial date, billing
\* cycle and today, the initial date when it is not before today and else the
\* first date on or after today reached by repeatedly adding the cycle's months.
C31_ReturnsFirstDueOnOrAfterToday ==
    ret.op = "next_due_date" =>
        LET months == CYCLE_TO_MONTHS[ret.key[2]]
            k == FirstOnOrAfter(ret.key[1], months, ret.key[3])
        IN  /\ ~ret.value.raises
            /\ ret.value.value = Reached(ret.key[1], months, k)

\* C31, amended: the same whenever that first date is a date of the calendar
\* (its year is at most MAXYEAR); when it is not, the call ends by raising
\* ValueError.
C31_ReturnsFirstDueWithinCalendar ==
    ret.op = "next_due_date" =>
        LET months == CYCLE_TO_MONTHS[ret.key[2]]
            k == FirstOnOrAfter(ret.key[1], months, ret.key[3])
            due == Reached(ret.key[1], months, k)
        IN  IF due.year <= MAXYEAR
            THEN /\ ~ret.value.raises
                 /\ ret.value.value = due
                 /\ Ordinal(ret.key[1]) >= Ordinal(ret.key[3]) => ret.value.value = ret.key[1]
            ELSE ret.value.raises

\* A date at the end of January was rolled forward month by month to
\* December, its day cut at the end of February on the way.
C31_Witness ==
    /\ ret.op = "next_due_date"
    /\ ret.key = <<Date(2024, 1, 31), "monthly", Date(2024, 12, 15)>>
    /\ ret.value = Returns(Date(2024, 12, 29))

\* -------------------------------------------------------------- login flow
\* The key's lockout lies in the future of t.
LimitedAt(key, t) ==
    /\ key \in DOMAIN entries
    /\ entries[key].locked_until # None
    /\ entries[key].locked_until > t

\* C32: when the limiter key is limited at the check, the login is answered
\* 429 there: the handler returns without looking up the user or verifying
\* the password, no failure is registered and no session is issued.
C32_LimitedLoginStopsAtTheCheck ==
    [][\A t \in Threads :
          LoginCheck(t) /\ LimitedAt(ReqKey(t), cur[t]) =>
              /\ resp' = TooManyAttempts(resp'.retry_after)
              /\ pc'[t] = "idle"
              /\ entries' = entries
              /\ UNCHANGED <<users, sessions, handed>>]_vars

\* A login of an account that exists was stopped at the check, a second or
\* more into the lockout.
C32_Witness ==
    /\ resp = TooManyAttempts(1)
    /\ 1 < WholeSeconds(lockout_duration)
    /\ users # {}
    /\ \E key \in DOMAIN entries : LimitedAt(key, now) /\ entries[key].locked_until - now >= TicksPerSecond

\* ---------------------------------------------------------- rolling window
\* How many of the recorded failures have their timestamp in [from, to].
CountBetween(attempts, from, to) ==
    Cardinality({i \in 1..Len(attempts) : attempts[i] >= from /\ attempts[i] <= to})

\* How many of the recorded failures have their timestamp at or after `from`.
CountSince(attempts, from) ==
    Cardinality({i \in 1..Len(attempts) : attempts[i] >= from})

\* C33 as stated: register_failure at time t sets a lockout if and only if
\* the recorded failures with timestamp in [t - window, t], the new one
\* included, are at least max_attempts.
C33_LockoutIffWindowCountReachesMax ==
    [][\A t \in Threads :
          LoginFailStore(t) =>
              LET recorded == snap[t].attempts
                  count == CountBetween(recorded, cur[t] - attempt_window, cur[t]) + 1
              IN  (resp'.status = 429) <=> (count >= max_attempts)]_vars

\* C33, amended: the failures counted are those recorded with a timestamp at
\* or after t - window (one registered by a call that read its clock later
\* and took the lock earlier is among them); a lockout is set, until
\* t + lockout, if and only if they and the new one are at least max_attempts;
\* older failures are dropped from the entry.
C33_LockoutIffCountSinceWindowStartReachesMax ==
    [][\A t \in Threads :
          LoginFailStore(t) =>
              LET recorded == snap[t].attempts
                  count == CountSince(recorded, cur[t] - attempt_window) + 1
                  after == entries'[ReqKey(t)]
              IN  /\ (resp'.status = 429) <=> (count >= max_attempts)
                  /\ after.locked_until = IF count >= max_attempts
                                          THEN cur[t] + lockout_duration
                                          ELSE snap[t].locked_until
                  /\ Len(after.attempts) = count
                  /\ \A i \in 1..Len(after.attempts) :
                        after.attempts[i] >= cur[t] - attempt_window]_vars

\* A lockout was set by a failure whose timestamp is earlier than one
\* recorded before it.
C33_Witness ==
    \E key \in DOMAIN entries :
        LET attempts == entries[key].attempts
        IN  /\ Len(attempts) >= max_attempts
            /\ entries[key].locked_until = Last(attempts) + lockout_duration
            /\ \E i \in 1..Len(attempts) : attempts[i] > Last(attempts)

\* ------------------------------------------------------------ session sweep
\* C34: right after a session was issued at time now, no session row of any
\* user whose absolute expiry is at or before now remains, and every row with
\* a later expiry that is not a prior session of the issuing user is still
\* there.
C34_IssuanceSweepsExpiredSessions ==
    [][Len(handed') = Len(handed) + 1 =>
          LET issued == handed'[Len(handed')]
          IN  /\ \A s \in sessions' : s.expires_at * TicksPerSecond > now
              /\ \A s \in sessions :
                    (s.expires_at * TicksPerSecond > now /\ s.user_id # issued.user_id)
                        => s \in sessions'
              /\ \E s \in sessions' :
                    /\ s.token_hash = HashSessionToken(issued.token)
                    /\ s.user_id = issued.user_id]_vars

\* A second user's session was just issued, in the second in which the first
\* user's session expired: only the new row is in the table.
C34_Witness ==
    /\ Len(handed) = 2
    /\ handed[1].user_id # handed[2].user_id
    /\ resp.op = "signup"
    /\ resp.token = handed[2].token
    /\ \A s \in sessions : s.id = 2 /\ s.created_at * TicksPerSecond = now
    /\ sessions # {}
    /\ now = session_duration_seconds * TicksPerSecond

\* ------------------------------------------------------- concurrent guesses
\* The passwords tested for `key` with a timestamp in [from, from + window]:
\* every recorded failure is one verification that was performed, and so is
\* that of a request that has verified and not yet registered its failure.
GuessesTested(key, from) ==
    CountBetween(entries[key].attempts, from, from + attempt_window)
      + Cardinality({t \in Threads : /\ pc[t] \in {"fail", "locked"}
                                     /\ ReqKey(t) = key
                                     /\ cur[t] >= from
                                     /\ cur[t] <= from + attempt_window})

\* C35: under concurrent logins for one limiter key, no more than
\* max_attempts password verifications are performed for the key within one
\* attempt window.
C35_AtMostMaxAttemptsGuessesPerWindow ==
    \A key \in DOMAIN entries : \A from \in 0..MaxTime :
        GuessesTested(key, from) <= max_attempts

\* ---------------------------------------------------------- login sessions
\* The password is the one the user's stored hash was made from.
IsPasswordOf(password, user) ==
    \E salt \in Salts : user.password_hash = HashPassword(password, salt)

\* C36: the login endpoint issues a session only for a user that has the
\* submitted email and whose stored hash the submitted password verifies
\* against; a failed login, refused at the check or after verification,
\* leaves the sessions table as it was: no row is added and every token
\* resolves as before.
C36_SessionOnlyForVerifiedLogin ==
    [][\A t \in Threads :
          /\ LoginSucceed(t) =>
                \E u \in users :
                    /\ u.email = req[t].email
                    /\ IsPasswordOf(req[t].password, u)
                    /\ handed'[Len(handed')].user_id = u.id
          /\ (LoginFailStore(t) \/ (LoginCheck(t) /\ pc'[t] = "idle")) =>
                /\ UNCHANGED <<sessions, handed>>
                /\ \A i \in 1..Len(handed) :
                      CurrentUser(handed[i].token, sessions', users', now')
                        = CurrentUser(handed[i].token, sessions, users, now)]_vars

\* A login with a wrong password was answered 401 while two sessions of the
\* user, one from the signup and one from a login, resolve.
C36_Witness ==
    /\ resp.op = "login"
    /\ resp.status = 401
    /\ Len(handed) = 2
    /\ \A i \in 1..2 : CurrentUser(handed[i].token, sessions, users, now) = handed[i].user_id

\* ------------------------------------------------------- per-user isolation
\* The rows of a table that belong to other users than `user_id`.
RowsOfOthers(table, user_id) == {r \in table : r.user_id # user_id}

\* C37: an authenticated update or delete request, with a valid CSRF pair and
\* payload, that names a subscription or category id owned by another user
\* is answered 404 and leaves the rows of other users as they are; the list
\* endpoints return rows of the authenticated user only.
C37_RowsAreIsolatedPerUser ==
    [][\A token \in IssuedTokens : \A pair \in ValidCsrfPairs :
          LET user_id == CurrentUser(token, sessions, users, now)
              Foreign(table, id) == \E r \in table : r.id = id /\ r.user_id # user_id
              OthersUntouched ==
                  /\ RowsOfOthers(subscriptions', user_id) = RowsOfOthers(subscriptions, user_id)
                  /\ RowsOfOthers(categories', user_id) = RowsOfOthers(categories, user_id)
          IN  user_id # None =>
                /\ \A sub_id \in SubscriptionIds :
                      /\ (Foreign(subscriptions, sub_id)
                            /\ UpdateSubscription(token, pair[1], pair[2], sub_id, GoodBody("Music")))
                           => resp'.status = 404 /\ OthersUntouched
                      /\ (Foreign(subscriptions, sub_id)
                            /\ DeleteSubscription(token, pair[1], pair[2], sub_id))
                           => resp'.status = 404 /\ OthersUntouched
                /\ \A category_id \in AnyCategoryIds :
                      (Foreign(categories, category_id)
                        /\ DeleteCategory(token, pair[1], pair[2], category_id))
                       => resp'.status = 404 /\ OthersUntouched
                /\ (GetSubscriptions(token) \/ GetReminders(token)) =>
                      \A row \in resp'.rows :
                          \E r \in subscriptions : r.id = row.id /\ r.user_id = user_id
                /\ GetCategories(token) =>
                      \A row \in resp'.rows :
                          \E c \in categories : c.id = row.id /\ c.user_id = user_id]_vars

\* A request for the subscription of another user was answered 404, and the
\* subscription is there.
C37_Witness ==
    /\ resp.op \in {"update_subscription", "delete_subscription"}
    /\ resp.status = 404
    /\ \E r \in subscriptions : r.user_id # resp.user /\ r.category = "Gaming"

\* -------------------------------------------- subscriptions and categories
\* The user of the row has a category of the row's name, whatever the case.
HasCategory(r) ==
    \E c \in categories : c.user_id = r.user_id /\ NoCase(c.name) = NoCase(r.category)

\* C38: in every reachable state each subscription has, for its user, a
\* category row whose name equals the subscription's category
\* case-insensitively, whatever the interleaving of a category delete with
\* the creation or update of a subscription.
C38_EverySubscriptionHasItsCategory == \A r \in subscriptions : HasCategory(r)

====
